---- MODULE Spec2Model ----
(***************************************************************************)
(* graphGPU: the CPU force-directed layout (ForceLayout), the Graph it     *)
(* works on and the GraphGPU facade that owns layouts.                     *)
(*                                                                         *)
(* Numbers are fixed-point: the integer k stands for k / Scale.  NaN and   *)
(* the two infinities are tokens with IEEE-754 rules.  A typed array of    *)
(* length k is a function on 0..k-1: a read outside it gives undefined,    *)
(* which every use in the code coerces to NaN; a write outside it is       *)
(* dropped.                                                                *)
(***************************************************************************)
EXTENDS Integers, Sequences, FiniteSets, TLC

\* ------------------------------------------------------------------------
\* Bounds of the model
\* ------------------------------------------------------------------------
MaxNodes == 3      \* node ids (the capacity of the graph's buffers)
MaxCalls == 3      \* calls made by the layout's and the graph's callers
MaxTicks == 6      \* ticks executed in all
MaxSteps == 2      \* the argument of step()
MaxLayouts == 3    \* ForceLayouts constructed by one GraphGPU

\* ------------------------------------------------------------------------
\* Numbers
\* ------------------------------------------------------------------------
Scale == 1000
PInf == 2000000 * Scale
NInf == 0 - PInf
NaN == PInf + 1

IsNaN(a) == a = NaN
IsInf(a) == a = PInf \/ a = NInf
IsFinite(a) == ~IsNaN(a) /\ ~IsInf(a)

AbsI(a) == IF a < 0 THEN 0 - a ELSE a
SgnI(a) == IF a < 0 THEN 0 - 1 ELSE IF a > 0 THEN 1 ELSE 0
\* integer quotient rounded toward zero, b # 0
TDiv(a, b) == SgnI(a) * SgnI(b) * (AbsI(a) \div AbsI(b))

\* the r in h..(h + 31) with r * r <= x < (r + 1) * (r + 1)
ISqrtNear[x \in Nat, h \in Nat] ==
    CHOOSE r \in h..(h + 31) : r * r <= x /\ (r + 1) * (r + 1) > x
\* floor of the square root of a natural number, 10 bits of x at a time
ISqrt[x \in Nat] ==
    IF x < 1024 THEN ISqrtNear[x, 0] ELSE ISqrtNear[x, 32 * ISqrt[x \div 1024]]

\* The arithmetic of the code's numbers.  These are functions: an operand is
\* one number, computed before the operation is applied to it.
Neg[a \in Int] == IF IsNaN(a) THEN NaN ELSE 0 - a
Add[a \in Int, b \in Int] ==
    IF IsNaN(a) \/ IsNaN(b) THEN NaN
    ELSE IF IsInf(a) THEN (IF IsInf(b) /\ a # b THEN NaN ELSE a)
    ELSE IF IsInf(b) THEN b
    ELSE a + b
Sub[a \in Int, b \in Int] == Add[a, Neg[b]]
\* a * b; the larger operand is split so that the product stays in range
Mul[a \in Int, b \in Int] ==
    IF IsNaN(a) \/ IsNaN(b) THEN NaN
    ELSE IF IsInf(a) \/ IsInf(b)
         THEN (IF a = 0 \/ b = 0 THEN NaN
               ELSE IF SgnI(a) * SgnI(b) > 0 THEN PInf ELSE NInf)
    ELSE LET big == IF AbsI(a) >= AbsI(b) THEN AbsI(a) ELSE AbsI(b)
             sml == IF AbsI(a) >= AbsI(b) THEN AbsI(b) ELSE AbsI(a)
         IN  SgnI(a) * SgnI(b)
               * ((big \div Scale) * sml + (((big % Scale) * sml) \div Scale))
\* a / b
Div[a \in Int, b \in Int] ==
    IF IsNaN(a) \/ IsNaN(b) THEN NaN
    ELSE IF IsInf(a) THEN (IF IsInf(b) THEN NaN
                           ELSE IF SgnI(a) * (IF b < 0 THEN 0 - 1 ELSE 1) > 0
                                THEN PInf ELSE NInf)
    ELSE IF IsInf(b) THEN 0
    ELSE IF b = 0 THEN (IF a = 0 THEN NaN ELSE IF a > 0 THEN PInf ELSE NInf)
    ELSE TDiv(a * Scale, b)
\* a / (d * d), the quotient taken at full precision
DivSq[a \in Int, d \in Int] ==
    IF IsNaN(a) \/ IsNaN(d) THEN NaN
    ELSE IF IsInf(d) THEN (IF IsInf(a) THEN NaN ELSE 0)
    ELSE IF IsInf(a) THEN a
    ELSE IF d = 0 THEN (IF a = 0 THEN NaN ELSE IF a > 0 THEN PInf ELSE NInf)
    ELSE TDiv(a * Scale * Scale, d * d)
\* Math.sqrt(x * x + y * y)
Hyp[x \in Int, y \in Int] ==
    IF IsNaN(x) \/ IsNaN(y) THEN NaN
    ELSE IF IsInf(x) \/ IsInf(y) THEN PInf
    ELSE ISqrt[x * x + y * y]
\* Math.abs, Math.max and the comparisons: any comparison with NaN is false
MathAbs[a \in Int] == IF IsNaN(a) THEN NaN ELSE AbsI(a)
MathMax[a \in Int, b \in Int] ==
    IF IsNaN(a) \/ IsNaN(b) THEN NaN ELSE IF a > b THEN a ELSE b
Gt(a, b) == ~IsNaN(a) /\ ~IsNaN(b) /\ a > b
Lt(a, b) == ~IsNaN(a) /\ ~IsNaN(b) /\ a < b
Le(a, b) == ~IsNaN(a) /\ ~IsNaN(b) /\ a <= b
Ge(a, b) == ~IsNaN(a) /\ ~IsNaN(b) /\ a >= b

\* x is computed first; the statements that follow, Rest, run on its value
Then(x, Rest(_)) == CHOOSE r \in { Rest(v) : v \in {x} } : TRUE

\* ------------------------------------------------------------------------
\* Typed arrays
\* ------------------------------------------------------------------------
Float32Array(k) == [i \in 0..(k - 1) |-> 0]
Length(a) == Cardinality(DOMAIN a)
Get(a, i) == IF i \in DOMAIN a THEN a[i] ELSE NaN
Put(a, i, v) == IF i \in DOMAIN a THEN [a EXCEPT ![i] = v] ELSE a
\* next.set(old.subarray(0, min(old.length, next.length)))
CopyInto(next, old) == [i \in DOMAIN next |-> IF i \in DOMAIN old THEN old[i] ELSE next[i]]
Fill0(a) == [i \in DOMAIN a |-> 0]

\* ------------------------------------------------------------------------
\* Graph (core/Graph.ts)
\* ------------------------------------------------------------------------
DefaultNodeSize == 6 * Scale

\* new Graph({maxNodes, maxEdges}), GraphOfCapacity with both equal to cap
\* (the model does not grow the buffers: a graph is at most as large as they
\* are).  nodeTags[i] and
\* edgeTags[e] tell whether a tag is stored (it is not `undefined`); nodeAdj[i]
\* is the Set of edge ids that the adjacency Map holds for node i, in insertion
\* order, << >> where the Map has no entry
GraphOf(maxNodes, maxEdges) ==
    [ nodeCount   |-> 0,
      positions   |-> Float32Array(2 * maxNodes),
      sizes       |-> Float32Array(maxNodes),
      nodeTags    |-> [i \in 0..(maxNodes - 1) |-> FALSE],
      freeNodes   |-> << >>,
      edgeCount   |-> 0,
      edgeIndices |-> Float32Array(2 * maxEdges),
      edgeTags    |-> [e \in 0..(maxEdges - 1) |-> FALSE],
      freeEdges   |-> << >>,
      nodeAdj     |-> [i \in 0..(maxNodes - 1) |-> << >>],
      dirtyNodes  |-> TRUE,
      dirtyEdges  |-> TRUE ]
GraphOfCapacity(cap) == GraphOf(cap, cap)
NewGraph == GraphOfCapacity(MaxNodes)

numNodes(g) == g.nodeCount
numEdges(g) == g.edgeCount
isEdgeActive(g, e) == e >= 0 /\ e < g.edgeCount /\ g.edgeTags[e]

\* Graph.addNode({x, y, size}); the id is popped from the free list or is nodeCount
addNodeId(g) ==
    IF Len(g.freeNodes) > 0 THEN g.freeNodes[Len(g.freeNodes)] ELSE g.nodeCount
addNode(g, x, y, size) ==
    LET id == addNodeId(g)
    IN  [g EXCEPT
          !.freeNodes = IF Len(g.freeNodes) > 0
                        THEN SubSeq(g.freeNodes, 1, Len(g.freeNodes) - 1)
                        ELSE g.freeNodes,
          !.nodeCount = IF g.nodeCount > id + 1 THEN g.nodeCount ELSE id + 1,
          !.positions = [g.positions EXCEPT ![id * 2] = x, ![id * 2 + 1] = y],
          !.sizes = [g.sizes EXCEPT ![id] = size],
          !.nodeTags = [g.nodeTags EXCEPT ![id] = TRUE],
          !.dirtyNodes = TRUE]

\* adjAdd(nodeId, edgeId) and adjRemove(nodeId, edgeId) on the adjacency index
adjAdd(adj, nodeId, edgeId) ==
    IF \E k \in DOMAIN adj[nodeId] : adj[nodeId][k] = edgeId THEN adj
    ELSE [adj EXCEPT ![nodeId] = Append(@, edgeId)]
adjRemove(adj, nodeId, edgeId) ==
    [adj EXCEPT ![nodeId] = SelectSeq(@, LAMBDA x : x # edgeId)]

\* Graph.addEdge({source, target})
addEdgeId(g) ==
    IF Len(g.freeEdges) > 0 THEN g.freeEdges[Len(g.freeEdges)] ELSE g.edgeCount
addEdge(g, source, target) ==
    LET id == addEdgeId(g)
    IN  [g EXCEPT
          !.freeEdges = IF Len(g.freeEdges) > 0
                        THEN SubSeq(g.freeEdges, 1, Len(g.freeEdges) - 1)
                        ELSE g.freeEdges,
          !.edgeCount = IF g.edgeCount > id + 1 THEN g.edgeCount ELSE id + 1,
          !.edgeIndices = [g.edgeIndices EXCEPT ![id * 2] = source, ![id * 2 + 1] = target],
          !.edgeTags = [g.edgeTags EXCEPT ![id] = TRUE],
          !.nodeAdj = adjAdd(adjAdd(g.nodeAdj, source, id), target, id),
          !.dirtyEdges = TRUE]

\* the count after "Shrink ... if we deleted from the tail": the trailing ids
\* without a tag are dropped
Shrunk(count, tags) ==
    IF \A i \in 0..(count - 1) : ~tags[i] THEN 0
    ELSE 1 + CHOOSE i \in 0..(count - 1) : tags[i] /\ \A j \in (i + 1)..(count - 1) : ~tags[j]
\* the free list after `push(id)` and the filter `fid < count`
Freed(free, id, count) == SelectSeq(Append(free, id), LAMBDA fid : fid < count)

\* Graph.removeEdge(id)
removeEdge(g, id) ==
    IF id < 0 \/ id >= g.edgeCount \/ ~g.edgeTags[id] THEN g
    ELSE LET tags == [g.edgeTags EXCEPT ![id] = FALSE]
             count == Shrunk(g.edgeCount, tags)
         IN  [g EXCEPT
               !.nodeAdj = adjRemove(adjRemove(g.nodeAdj, g.edgeIndices[id * 2], id),
                                     g.edgeIndices[id * 2 + 1], id),
               !.edgeIndices = [g.edgeIndices EXCEPT ![id * 2] = 0, ![id * 2 + 1] = 0],
               !.edgeTags = tags,
               !.freeEdges = Freed(g.freeEdges, id, count),
               !.edgeCount = count,
               !.dirtyEdges = TRUE]

RECURSIVE RemoveEach(_, _, _)
\* removeNodeEdges, the loop over the copy edgeIds of the node's Set, from k on
RemoveEach(g, edgeIds, k) ==
    IF k > Len(edgeIds) THEN g ELSE RemoveEach(removeEdge(g, edgeIds[k]), edgeIds, k + 1)
\* Graph.removeNodeEdges(nodeId)
removeNodeEdges(g, nodeId) ==
    IF g.nodeAdj[nodeId] = << >> THEN g
    ELSE [RemoveEach(g, g.nodeAdj[nodeId], 1) EXCEPT !.nodeAdj[nodeId] = << >>]

\* removeNode after its removeNodeEdges: buffers zeroed, tag cleared, id freed
Removed(g, id) ==
    LET tags == [g.nodeTags EXCEPT ![id] = FALSE]
        count == Shrunk(g.nodeCount, tags)
    IN  [g EXCEPT
          !.positions = [g.positions EXCEPT ![id * 2] = 0, ![id * 2 + 1] = 0],
          !.sizes = [g.sizes EXCEPT ![id] = 0],
          !.nodeTags = tags,
          !.freeNodes = Freed(g.freeNodes, id, count),
          !.nodeCount = count,
          !.dirtyNodes = TRUE]
\* Graph.removeNode(id)
removeNode(g, id) ==
    IF id < 0 \/ id >= g.nodeCount \/ ~g.nodeTags[id] THEN g
    ELSE Removed(removeNodeEdges(g, id), id)

\* Graph.clear(): counts, free lists, buffers and tags; nodeAdj is not touched
clear(g) ==
    [g EXCEPT
      !.nodeCount = 0, !.edgeCount = 0, !.freeNodes = << >>, !.freeEdges = << >>,
      !.positions = Fill0(g.positions), !.sizes = Fill0(g.sizes),
      !.edgeIndices = Fill0(g.edgeIndices),
      !.nodeTags = [i \in DOMAIN g.nodeTags |-> FALSE],
      !.edgeTags = [e \in DOMAIN g.edgeTags |-> FALSE],
      !.dirtyNodes = TRUE, !.dirtyEdges = TRUE]

\* Graph.isNodeActive(id)
isNodeActive(g, id) == id >= 0 /\ id < g.nodeCount /\ g.nodeTags[id]

\* Graph.setNodePosition(id, x, y)
setNodePosition(g, id, x, y) ==
    [g EXCEPT !.positions = [g.positions EXCEPT ![id * 2] = x, ![id * 2 + 1] = y],
              !.dirtyNodes = TRUE,
              !.dirtyEdges = TRUE]

\* Graph.setNodeSize(id, size)
setNodeSize(g, id, size) == [g EXCEPT !.sizes = [g.sizes EXCEPT ![id] = size], !.dirtyNodes = TRUE]

\* ------------------------------------------------------------------------
\* ForceLayout (layout/ForceLayout.ts): construction and buffers
\* ------------------------------------------------------------------------
\* new ForceLayout(graph, opts): the buffers are sized by graph.numNodes
NewForceLayout(g, opts) ==
    [ config     |-> opts,
      velocities |-> Float32Array(numNodes(g) * 2),
      forces     |-> Float32Array(numNodes(g) * 2),
      running    |-> FALSE,
      iteration  |-> 0,
      animated   |-> FALSE,
      pinned     |-> {},
      scheduled  |-> 0 ]   \* loop callbacks handed to requestAnimationFrame, not yet run

\* ForceLayout.ensureBuffers: grow to graph.numNodes * 2; velocities are kept
ensureBuffers(l, g) ==
    LET needed == numNodes(g) * 2
    IN  [l EXCEPT
          !.velocities = IF Length(l.velocities) < needed
                         THEN CopyInto(Float32Array(needed), l.velocities)
                         ELSE l.velocities,
          !.forces = IF Length(l.forces) < needed
                     THEN Float32Array(needed)
                     ELSE l.forces]

\* ------------------------------------------------------------------------
\* ForceLayout.tick: the force passes
\* ------------------------------------------------------------------------
\* forces[k] += v and forces[k] -= v
AddAt(forces, k, v) == Put(forces, k, Add[Get(forces, k), v])
SubAt(forces, k, v) == Put(forces, k, Sub[Get(forces, k), v])

\* repulsionBruteForce, `if (dist === 0)`: dx and dy are redrawn from
\* Math.random(); rnd holds the two draws
Jitter[dx \in Int, dy \in Int, rnd \in Int \X Int] ==
    IF Hyp[dx, dy] = 0
    THEN <<Mul[Scale \div 10, rnd[1]], Mul[Scale \div 10, rnd[2]]>>
    ELSE <<dx, dy>>
\* <<dx, dy>> of the pair (i, j)
PairDelta(i, j, pos, rnd) ==
    Jitter[Sub[pos[i * 2], pos[j * 2]], Sub[pos[i * 2 + 1], pos[j * 2 + 1]], rnd]
\* <<fx, fy>> from d = <<dx, dy>>, dist and forceMag = G / (dist * dist)
PairForceMag[d \in Int \X Int, dist \in Int, forceMag \in Int] ==
    <<Mul[Div[d[1], dist], forceMag], Mul[Div[d[2], dist], forceMag]>>
PairForceAt[d \in Int \X Int, dist \in Int, G \in Int] ==
    PairForceMag[d, dist, DivSq[G, dist]]
PairForce[d \in Int \X Int, G \in Int] == PairForceAt[d, Hyp[d[1], d[2]], G]
\* Newton's 3rd law: f = <<fx, fy>> is taken from i and given to j
ApplyPair(i, j, forces, f) ==
    Then(SubAt(forces, i * 2, f[1]), LAMBDA f1 :
    Then(SubAt(f1, i * 2 + 1, f[2]), LAMBDA f2 :
    Then(AddAt(f2, j * 2, f[1]), LAMBDA f3 :
         AddAt(f3, j * 2 + 1, f[2]))))
\* one (i, j) pair of repulsionBruteForce
RepulsionPair(i, j, pos, forces, G, rnd) ==
    Then(PairForce[PairDelta(i, j, pos, rnd), G], LAMBDA f : ApplyPair(i, j, forces, f))

RECURSIVE RepulsionLoop(_, _, _, _, _, _, _, _)
\* the double loop of repulsionBruteForce, from pair (i, j) on
RepulsionLoop(i, j, n, pos, sizes, forces, G, rnd) ==
    IF i >= n THEN forces
    ELSE IF Le(sizes[i], 0) \/ j >= n
         THEN RepulsionLoop(i + 1, i + 2, n, pos, sizes, forces, G, rnd)
    ELSE IF Le(sizes[j], 0)
         THEN RepulsionLoop(i, j + 1, n, pos, sizes, forces, G, rnd)
    ELSE Then(RepulsionPair(i, j, pos, forces, G, rnd),
              LAMBDA f : RepulsionLoop(i, j + 1, n, pos, sizes, f, G, rnd))

repulsionBruteForce(n, pos, sizes, forces, G, rnd) ==
    RepulsionLoop(0, 1, n, pos, sizes, forces, G, rnd)

\* ------------------------------------------------------------------------
\* QuadTree (layout/QuadTree.ts): the Barnes-Hut spatial index
\* ------------------------------------------------------------------------
\* A tree is [pool, root]: pool is the sequence of the tree nodes allocated,
\* tree node idx at pool[idx + 1]; a tree node is [child, bodyId, mass, comX,
\* comY, cx, cy, half], child = <<CHILD_0, .., CHILD_3>>, -1 for none.
\* The cell geometry cx, cy, half is kept in units of 1 / CellScale of the
\* model's unit, so that halving a cell stays exact where the code's floats are.
CellScale == 1024
MaxDepth == 40
ToCell[x \in Int] == Mul[x, CellScale * Scale]
FromCell[x \in Int] == IF IsFinite(x) THEN TDiv(x, CellScale) ELSE x

NoChild == <<0 - 1, 0 - 1, 0 - 1, 0 - 1>>
EmptyTree == [pool |-> << >>, root |-> 0 - 1]

\* QuadTree.allocNode: the new tree node has index Len(pool)
allocNode(pool, cx, cy, half) ==
    Append(pool, [child |-> NoChild, bodyId |-> 0 - 1, mass |-> 0, comX |-> 0,
                  comY |-> 0, cx |-> cx, cy |-> cy, half |-> half])

\* insertIntoChild: the quadrant of (bx, by) in the cell of tree node t
Quadrant(t, bx, by) ==
    IF Ge(ToCell[bx], t.cx)
    THEN (IF Ge(ToCell[by], t.cy) THEN 1 ELSE 3)
    ELSE (IF Ge(ToCell[by], t.cy) THEN 2 ELSE 4)
\* the centre of that quadrant's cell, qHalf = half * 0.5
ChildCX(t, q) == IF q \in {1, 3} THEN Add[t.cx, Mul[t.half, Scale \div 2]]
                 ELSE Sub[t.cx, Mul[t.half, Scale \div 2]]
ChildCY(t, q) == IF q \in {1, 2} THEN Add[t.cy, Mul[t.half, Scale \div 2]]
                 ELSE Sub[t.cy, Mul[t.half, Scale \div 2]]

\* insertIntoChild up to its call of insert: the child of tree node `at` for
\* (bx, by) is allocated when missing.  Result: [pool, at], at = the child
ChildFor(pool, at, bx, by) ==
    LET t == pool[at + 1]
        q == Quadrant(t, bx, by)
    IN  IF t.child[q] >= 0
        THEN [pool |-> pool, at |-> t.child[q]]
        ELSE [pool |-> [allocNode(pool, ChildCX(t, q), ChildCY(t, q),
                                  Mul[t.half, Scale \div 2])
                          EXCEPT ![at + 1].child[q] = Len(pool)],
              at |-> Len(pool)]

\* a faulty Case 1: the body is placed and the leaf's mass left at 0
PlaceBodyMassless(pool, at, bodyId, bx, by) ==
    [pool EXCEPT ![at + 1].bodyId = bodyId, ![at + 1].comX = bx, ![at + 1].comY = by]
\* insert, Case 1: the body is placed in the empty leaf `at`
PlaceBody(pool, at, bodyId, bx, by) ==
    [pool EXCEPT ![at + 1].bodyId = bodyId, ![at + 1].comX = bx,
                 ![at + 1].comY = by, ![at + 1].mass = Scale]

\* insert, Case 2: the leaf `at` is marked internal and its body re-inserted; the
\* child that receives it was just allocated, so that insert() ends in Case 1
Subdivide(pool, at) ==
    LET t == pool[at + 1]
    IN  Then(ChildFor([pool EXCEPT ![at + 1].bodyId = 0 - 1, ![at + 1].mass = 0],
                      at, t.comX, t.comY),
             LAMBDA c : PlaceBody(c.pool, c.at, t.bodyId, t.comX, t.comY))

\* a faulty insert: without the depth cap, an occupied cell always subdivides
InsertStepUncapped(st, bodyId, bx, by) ==
    LET t == st.pool[st.at + 1]
    IN  IF t.bodyId < 0 /\ t.child = NoChild
        THEN [st EXCEPT !.pool = PlaceBody(st.pool, st.at, bodyId, bx, by), !.done = TRUE]
        ELSE Then(IF t.bodyId >= 0 THEN Subdivide(st.pool, st.at) ELSE st.pool,
                  LAMBDA p1 : Then(ChildFor(p1, st.at, bx, by),
                  LAMBDA c : [pool |-> c.pool, at |-> c.at, depth |-> st.depth + 1,
                              done |-> FALSE]))
\* a faulty insert: at the depth cap the body is dropped, the mass not raised
InsertStepDropsBody(st, bodyId, bx, by) ==
    LET t == st.pool[st.at + 1]
    IN  IF t.bodyId < 0 /\ t.child = NoChild
        THEN [st EXCEPT !.pool = PlaceBody(st.pool, st.at, bodyId, bx, by), !.done = TRUE]
        ELSE IF st.depth >= MaxDepth
        THEN [st EXCEPT !.done = TRUE]
        ELSE Then(IF t.bodyId >= 0 THEN Subdivide(st.pool, st.at) ELSE st.pool,
                  LAMBDA p1 : Then(ChildFor(p1, st.at, bx, by),
                  LAMBDA c : [pool |-> c.pool, at |-> c.at, depth |-> st.depth + 1,
                              done |-> FALSE]))
\* one call of insert(at, bodyId, bx, by, depth); st = [pool, at, depth, done],
\* done when the call returned without calling insert() for a child
InsertStep(st, bodyId, bx, by) ==
    LET t == st.pool[st.at + 1]
    IN  IF t.bodyId < 0 /\ t.child = NoChild
        THEN [st EXCEPT !.pool = PlaceBody(st.pool, st.at, bodyId, bx, by), !.done = TRUE]
        ELSE IF st.depth >= MaxDepth
        THEN [st EXCEPT !.pool = [st.pool EXCEPT ![st.at + 1].mass = Add[@, Scale]],
                        !.done = TRUE]
        ELSE Then(IF t.bodyId >= 0 THEN Subdivide(st.pool, st.at) ELSE st.pool,
                  LAMBDA p1 : Then(ChildFor(p1, st.at, bx, by),
                  LAMBDA c : [pool |-> c.pool, at |-> c.at, depth |-> st.depth + 1,
                              done |-> FALSE]))

RECURSIVE InsertRun(_, _, _, _, _)
\* the chain of insert() calls that one insert(root, ...) makes: at most k more
InsertRun(k, st, bodyId, bx, by) ==
    IF st.done \/ k = 0 THEN st
    ELSE IF k = 1 THEN InsertStep(st, bodyId, bx, by)
    ELSE Then(InsertRun(k \div 2, st, bodyId, bx, by),
              LAMBDA s1 : InsertRun(k - k \div 2, s1, bodyId, bx, by))

\* QuadTree.insert(root, bodyId, bx, by)
insert(pool, bodyId, bx, by) ==
    InsertRun(MaxDepth + 1, [pool |-> pool, at |-> 0, depth |-> 0, done |-> FALSE],
              bodyId, bx, by).pool

RECURSIVE ChildSums(_, _, _, _)
\* computeMass, the loop over the children q..4 of tree node t:
\* acc = [m, x, y] = totalMass, comX, comY so far
ChildSums(pool, t, q, acc) ==
    IF q > 4 THEN acc
    ELSE IF t.child[q] < 0 THEN ChildSums(pool, t, q + 1, acc)
    ELSE LET c == pool[t.child[q] + 1]
         IN  ChildSums(pool, t, q + 1,
                       [m |-> Add[acc.m, c.mass],
                        x |-> Add[acc.x, Mul[c.comX, c.mass]],
                        y |-> Add[acc.y, Mul[c.comY, c.mass]]])

\* computeMass(idx) once the children of idx are done
MassNode(pool, idx) ==
    LET t == pool[idx + 1]
    IN  IF t.bodyId >= 0 THEN pool
        ELSE Then(ChildSums(pool, t, 1, [m |-> 0, x |-> 0, y |-> 0]),
                  LAMBDA sum :
                      [pool EXCEPT
                         ![idx + 1].comX = IF Gt(sum.m, 0) THEN Div[sum.x, sum.m] ELSE @,
                         ![idx + 1].comY = IF Gt(sum.m, 0) THEN Div[sum.y, sum.m] ELSE @,
                         ![idx + 1].mass = sum.m])

RECURSIVE MassRange(_, _, _)
\* computeMass for the tree nodes hi, hi - 1, .., lo.  A child is allocated
\* after its parent, so this is the bottom-up order of the recursion from root
MassRange(pool, lo, hi) ==
    IF lo > hi THEN pool
    ELSE IF lo = hi THEN MassNode(pool, lo)
    ELSE Then(MassRange(pool, (lo + hi) \div 2 + 1, hi),
              LAMBDA p1 : MassRange(p1, lo, (lo + hi) \div 2))

\* QuadTree.computeMass(root)
computeMass(pool) == MassRange(pool, 0, Len(pool) - 1)

RECURSIVE BoundingBox(_, _, _, _, _)
\* build, "Find bounding box": box = [minX, minY, maxX, maxY]
BoundingBox(i, n, pos, sizes, box) ==
    IF i >= n THEN box
    ELSE IF Le(sizes[i], 0) THEN BoundingBox(i + 1, n, pos, sizes, box)
    ELSE BoundingBox(i + 1, n, pos, sizes,
             [minX |-> IF Lt(pos[i * 2], box.minX) THEN pos[i * 2] ELSE box.minX,
              maxX |-> IF Gt(pos[i * 2], box.maxX) THEN pos[i * 2] ELSE box.maxX,
              minY |-> IF Lt(pos[i * 2 + 1], box.minY) THEN pos[i * 2 + 1] ELSE box.minY,
              maxY |-> IF Gt(pos[i * 2 + 1], box.maxY) THEN pos[i * 2 + 1] ELSE box.maxY])

\* build, "Allocate root": the square cell around the box, 0.55 of its size
RootCell(box) ==
    LET size == MathMax[MathMax[Sub[box.maxX, box.minX], Sub[box.maxY, box.minY]],
                        Scale \div 1000]
    IN  allocNode(<< >>, Mul[ToCell[Add[box.minX, box.maxX]], Scale \div 2],
                  Mul[ToCell[Add[box.minY, box.maxY]], Scale \div 2],
                  Mul[ToCell[size], (55 * Scale) \div 100])

RECURSIVE InsertAll(_, _, _, _, _)
\* build, "Insert all active nodes"
InsertAll(i, n, pos, sizes, pool) ==
    IF i >= n THEN pool
    ELSE IF Le(sizes[i], 0) THEN InsertAll(i + 1, n, pos, sizes, pool)
    ELSE Then(insert(pool, i, pos[i * 2], pos[i * 2 + 1]),
              LAMBDA p1 : InsertAll(i + 1, n, pos, sizes, p1))

\* QuadTree.build(positions, sizes, nodeCount)
build(pos, sizes, n) ==
    IF n = 0 THEN EmptyTree
    ELSE Then(RootCell(BoundingBox(0, n, pos, sizes,
                  [minX |-> PInf, minY |-> PInf, maxX |-> NInf, maxY |-> NInf])),
         LAMBDA p0 : Then(InsertAll(0, n, pos, sizes, p0),
         LAMBDA p1 : [pool |-> computeMass(p1), root |-> 0]))

\* computeForce: <<(dx / dist) * forceMag, (dy / dist) * forceMag>> with
\* distSq = dx * dx + dy * dy + softening, forceMag = Gm / distSq.  The
\* softening, 1e-8, is below the model's unit: it counts only at dx = dy = 0,
\* where it makes dist positive and both quotients dx / dist, dy / dist zero.
SoftForce[dx \in Int, dy \in Int, Gm \in Int] ==
    IF dx = 0 /\ dy = 0 THEN <<Mul[0, Gm], Mul[0, Gm]>>
    ELSE IF IsFinite(dx) /\ IsFinite(dy) /\ IsFinite(Gm)
         THEN PairForceMag[<<dx, dy>>, Hyp[dx, dy],
                           TDiv(Gm * Scale * Scale, dx * dx + dy * dy)]
    ELSE PairForceMag[<<dx, dy>>, Hyp[dx, dy], DivSq[Gm, Hyp[dx, dy]]]

\* computeForce, the Barnes-Hut criterion (2 * halfSize) / dist < theta
FarEnough(t, dx, dy, theta) ==
    Lt(Div[Mul[2 * Scale, FromCell[t.half]], Hyp[dx, dy]], theta)

\* the children of tree node t pushed on the walk stack, CHILD_0 first
PushChildren(stack, t) ==
    stack \o SelectSeq(t.child, LAMBDA c : c >= 0)

\* one turn of the while loop of computeForce; w = [stack, fx, fy, hits],
\* hits = the tree nodes whose force was added so far, in the order of the walk
WalkStep(w, pool, nodeId, px, py, G, theta) ==
    LET t == pool[w.stack[Len(w.stack)] + 1]
        rest == SubSeq(w.stack, 1, Len(w.stack) - 1)
        dx == Sub[px, t.comX]
        dy == Sub[py, t.comY]
    IN  IF t.mass = 0 \/ t.bodyId = nodeId THEN [w EXCEPT !.stack = rest]
        ELSE IF t.bodyId >= 0
        THEN Then(SoftForce[dx, dy, G], LAMBDA f :
                  [stack |-> rest, fx |-> Sub[w.fx, f[1]], fy |-> Sub[w.fy, f[2]],
                   hits |-> Append(w.hits, w.stack[Len(w.stack)])])
        ELSE IF FarEnough(t, dx, dy, theta)
        THEN Then(SoftForce[dx, dy, Mul[G, t.mass]], LAMBDA f :
                  [stack |-> rest, fx |-> Sub[w.fx, f[1]], fy |-> Sub[w.fy, f[2]],
                   hits |-> Append(w.hits, w.stack[Len(w.stack)])])
        ELSE [w EXCEPT !.stack = PushChildren(rest, t)]

RECURSIVE WalkRun(_, _, _, _, _, _, _, _)
\* the while loop of computeForce: at most k more turns
WalkRun(k, w, pool, nodeId, px, py, G, theta) ==
    IF w.stack = << >> \/ k = 0 THEN w
    ELSE IF k = 1 THEN WalkStep(w, pool, nodeId, px, py, G, theta)
    ELSE Then(WalkRun(k \div 2, w, pool, nodeId, px, py, G, theta),
              LAMBDA w1 : WalkRun(k - k \div 2, w1, pool, nodeId, px, py, G, theta))

\* the walk of computeForce over a tree that has a root; every tree node is
\* pushed at most once
WalkOf(tree, nodeId, px, py, G, theta) ==
    WalkRun(Len(tree.pool),
            [stack |-> <<tree.root>>, fx |-> 0, fy |-> 0, hits |-> << >>],
            tree.pool, nodeId, px, py, G, theta)

\* QuadTree.computeForce(nodeId, px, py, G, theta): <<fx, fy>>
computeForce(tree, nodeId, px, py, G, theta) ==
    IF tree.root < 0 THEN <<0, 0>>
    ELSE Then(WalkOf(tree, nodeId, px, py, G, theta), LAMBDA w : <<w.fx, w.fy>>)

\* one node of the loop of repulsionBarnesHut
BarnesHutNode(i, tree, pos, forces, G, theta) ==
    Then(computeForce(tree, i, pos[i * 2], pos[i * 2 + 1], G, theta),
         LAMBDA f : Then(AddAt(forces, i * 2, f[1]),
         LAMBDA f1 : AddAt(f1, i * 2 + 1, f[2])))

RECURSIVE BarnesHutLoop(_, _, _, _, _, _, _, _)
BarnesHutLoop(i, n, tree, pos, sizes, forces, G, theta) ==
    IF i >= n THEN forces
    ELSE IF Le(sizes[i], 0) THEN BarnesHutLoop(i + 1, n, tree, pos, sizes, forces, G, theta)
    ELSE Then(BarnesHutNode(i, tree, pos, forces, G, theta),
              LAMBDA f : BarnesHutLoop(i + 1, n, tree, pos, sizes, f, G, theta))

\* ForceLayout.repulsionBarnesHut
repulsionBarnesHut(n, pos, sizes, forces, G, theta) ==
    Then(build(pos, sizes, n),
         LAMBDA tree : BarnesHutLoop(0, n, tree, pos, sizes, forces, G, theta))

\* tick, "1. Node-node repulsion": Barnes-Hut when barnesHutTheta > 0, else
\* the brute force
RepulsionPass(g, forces, cfg, rnd) ==
    IF cfg.gravitationalConstant = 0 THEN forces
    ELSE IF Gt(cfg.barnesHutTheta, 0)
    THEN repulsionBarnesHut(numNodes(g), g.positions, g.sizes, forces,
                            cfg.gravitationalConstant, cfg.barnesHutTheta)
    ELSE repulsionBruteForce(numNodes(g), g.positions, g.sizes, forces,
                             cfg.gravitationalConstant, rnd)

\* <<fx, fy>> of one spring from dx, dy and springForce
SpringVec[dx \in Int, dy \in Int, springForce \in Int] ==
    <<Mul[dx, springForce], Mul[dy, springForce]>>
SpringForceAt[dx \in Int, dy \in Int, dist \in Int, springK \in Int, springL \in Int] ==
    SpringVec[dx, dy, Div[Mul[springK, Sub[springL, dist]], dist]]
SpringForce[dx \in Int, dy \in Int, springK \in Int, springL \in Int] ==
    SpringForceAt[dx, dy, MathMax[Hyp[dx, dy], Scale \div 100], springK, springL]
\* a faulty spring: f = <<fx, fy>> is given to both endpoints
ApplySpringSameSign(src, tgt, forces, f) ==
    Then(AddAt(forces, src * 2, f[1]), LAMBDA f1 :
    Then(AddAt(f1, src * 2 + 1, f[2]), LAMBDA f2 :
    Then(AddAt(f2, tgt * 2, f[1]), LAMBDA f3 :
         AddAt(f3, tgt * 2 + 1, f[2]))))
\* f = <<fx, fy>> is given to src and taken from tgt
ApplySpring(src, tgt, forces, f) ==
    Then(AddAt(forces, src * 2, f[1]), LAMBDA f1 :
    Then(AddAt(f1, src * 2 + 1, f[2]), LAMBDA f2 :
    Then(SubAt(f2, tgt * 2, f[1]), LAMBDA f3 :
         SubAt(f3, tgt * 2 + 1, f[2]))))
\* a faulty spring pass: without `if (sizes[src] <= 0 || sizes[tgt] <= 0) continue`
SpringPairAnyEndpoint(src, tgt, pos, sizes, forces, springK, springL) ==
    Then(SpringForce[Sub[pos[src * 2], pos[tgt * 2]],
                     Sub[pos[src * 2 + 1], pos[tgt * 2 + 1]],
                     springK, springL],
         LAMBDA f : ApplySpring(src, tgt, forces, f))

\* one edge of the spring pass, src and tgt read from edgeIndices
SpringPair(src, tgt, pos, sizes, forces, springK, springL) ==
    IF Le(sizes[src], 0) \/ Le(sizes[tgt], 0)
    THEN forces
    ELSE Then(SpringForce[Sub[pos[src * 2], pos[tgt * 2]],
                          Sub[pos[src * 2 + 1], pos[tgt * 2 + 1]],
                          springK, springL],
              LAMBDA f : ApplySpring(src, tgt, forces, f))
SpringEdge(g, e, pos, sizes, forces, springK, springL) ==
    SpringPair(g.edgeIndices[e * 2], g.edgeIndices[e * 2 + 1],
               pos, sizes, forces, springK, springL)

RECURSIVE SpringLoop(_, _, _, _, _, _, _, _)
SpringLoop(e, edgeCount, g, pos, sizes, forces, springK, springL) ==
    IF e >= edgeCount THEN forces
    ELSE IF ~isEdgeActive(g, e)
         THEN SpringLoop(e + 1, edgeCount, g, pos, sizes, forces, springK, springL)
    ELSE Then(SpringEdge(g, e, pos, sizes, forces, springK, springL),
              LAMBDA f : SpringLoop(e + 1, edgeCount, g, pos, sizes, f, springK, springL))

\* tick, "2. Edge springs"
SpringPass(g, forces, cfg) ==
    SpringLoop(0, numEdges(g), g, g.positions, g.sizes, forces,
               cfg.springConstant, cfg.springLength)

\* <<dx * gForce, dy * gForce>>, gForce = cg / dist
GravityVec[dx \in Int, dy \in Int, gForce \in Int] == <<Mul[dx, gForce], Mul[dy, gForce]>>
\* the pull toward the origin from dx = -pos[ix], dy = -pos[iy]
GravityForce[dx \in Int, dy \in Int, cg \in Int] ==
    GravityVec[dx, dy, Div[cg, MathMax[Hyp[dx, dy], Scale \div 100]]]
\* forces[ix] += f[1]; forces[iy] += f[2]
ApplyGravity(i, forces, f) ==
    Then(AddAt(forces, i * 2, f[1]), LAMBDA f1 : AddAt(f1, i * 2 + 1, f[2]))
\* one node of the central-gravity pass
GravityNode(i, pos, forces, cg) ==
    Then(GravityForce[Neg[pos[i * 2]], Neg[pos[i * 2 + 1]], cg],
         LAMBDA f : ApplyGravity(i, forces, f))

RECURSIVE GravityLoop(_, _, _, _, _, _)
GravityLoop(i, n, pos, sizes, forces, cg) ==
    IF i >= n THEN forces
    ELSE IF Le(sizes[i], 0) THEN GravityLoop(i + 1, n, pos, sizes, forces, cg)
    ELSE Then(GravityNode(i, pos, forces, cg),
              LAMBDA f : GravityLoop(i + 1, n, pos, sizes, f, cg))

\* tick, "3. Central gravity"
GravityPass(g, forces, cfg) ==
    IF cfg.centralGravity # 0
    THEN GravityLoop(0, numNodes(g), g.positions, g.sizes, forces, cfg.centralGravity)
    ELSE forces

\* a faulty tick: without `forces.fill(0)`
TickForcesKept(g, cfg, forces, rnd) ==
    Then(RepulsionPass(g, forces, cfg, rnd), LAMBDA f1 :
    Then(SpringPass(g, f1, cfg), LAMBDA f2 :
         GravityPass(g, f2, cfg)))

\* The forces of one tick, accumulated into the array `forces` the tick holds
TickForces(g, cfg, forces, rnd) ==
    Then(RepulsionPass(g, Fill0(forces), cfg, rnd), LAMBDA f1 :
    Then(SpringPass(g, f1, cfg), LAMBDA f2 :
         GravityPass(g, f2, cfg)))

\* The forces after the repulsion and the spring pass of a tick (what the
\* gravity pass starts from)
PairwiseForces(g, cfg, forces, rnd) ==
    Then(RepulsionPass(g, Fill0(forces), cfg, rnd), LAMBDA f1 : SpringPass(g, f1, cfg))

\* ------------------------------------------------------------------------
\* ForceLayout.tick: integration and the whole tick
\* ------------------------------------------------------------------------
\* the velocity clamp of one component
Clamp[v \in Int, maxV \in Int] ==
    IF Gt(MathAbs[v], maxV) THEN (IF Gt(v, 0) THEN maxV ELSE Neg[maxV]) ELSE v

\* one component after `vel += (force - damp * vel) * dt` and the clamp, as the
\* later reads of vel[k] see it (a read outside the array is NaN before and
\* after the dropped write)
NewVel[force \in Int, v \in Int, damp \in Int, dt \in Int, maxV \in Int] ==
    Clamp[Add[v, Mul[Sub[force, Mul[damp, v]], dt]], maxV]

\* the new velocity <<vx, vy>> of node i is stored, the position advanced
\* and maxNodeVel raised to nodeVel
IntegrateMove(i, st, v, nodeVel, dt) ==
    [ pos |-> [st.pos EXCEPT ![i * 2] = Add[st.pos[i * 2], Mul[v[1], dt]],
                             ![i * 2 + 1] = Add[st.pos[i * 2 + 1], Mul[v[2], dt]]],
      vel |-> Put(Put(st.vel, i * 2, v[1]), i * 2 + 1, v[2]),
      maxNodeVel |-> IF Gt(nodeVel, st.maxNodeVel) THEN nodeVel ELSE st.maxNodeVel ]
IntegrateVel(i, st, v, dt) ==
    Then(Hyp[v[1], v[2]], LAMBDA nodeVel : IntegrateMove(i, st, v, nodeVel, dt))

\* one node of the integration loop; st = [pos, vel, maxNodeVel]
IntegrateNode(i, st, forces, cfg) ==
    Then(<<NewVel[Get(forces, i * 2), Get(st.vel, i * 2),
                  cfg.damping, cfg.timestep, cfg.maxVelocity],
           NewVel[Get(forces, i * 2 + 1), Get(st.vel, i * 2 + 1),
                  cfg.damping, cfg.timestep, cfg.maxVelocity]>>,
         LAMBDA v : IntegrateVel(i, st, v, cfg.timestep))

RECURSIVE IntegrateLoopPinnedToo(_, _, _, _, _, _, _)
\* a faulty integration loop: without `if (pinned.has(i)) continue`
IntegrateLoopPinnedToo(i, n, st, sizes, pinned, forces, cfg) ==
    IF i >= n THEN st
    ELSE IF Le(sizes[i], 0)
         THEN IntegrateLoopPinnedToo(i + 1, n, st, sizes, pinned, forces, cfg)
    ELSE Then(IntegrateNode(i, st, forces, cfg),
              LAMBDA moved : IntegrateLoopPinnedToo(i + 1, n, moved, sizes, pinned,
                                                    forces, cfg))

RECURSIVE IntegrateLoopInactiveToo(_, _, _, _, _, _, _)
\* a faulty integration loop: without `if (sizes[i] <= 0) continue`
IntegrateLoopInactiveToo(i, n, st, sizes, pinned, forces, cfg) ==
    IF i >= n THEN st
    ELSE IF i \in pinned
         THEN IntegrateLoopInactiveToo(i + 1, n, st, sizes, pinned, forces, cfg)
    ELSE Then(IntegrateNode(i, st, forces, cfg),
              LAMBDA moved : IntegrateLoopInactiveToo(i + 1, n, moved, sizes, pinned,
                                                      forces, cfg))
RECURSIVE IntegrateLoop(_, _, _, _, _, _, _)
IntegrateLoop(i, n, st, sizes, pinned, forces, cfg) ==
    IF i >= n THEN st
    ELSE IF Le(sizes[i], 0) \/ i \in pinned
         THEN IntegrateLoop(i + 1, n, st, sizes, pinned, forces, cfg)
    ELSE Then(IntegrateNode(i, st, forces, cfg),
              LAMBDA moved : IntegrateLoop(i + 1, n, moved, sizes, pinned, forces, cfg))

\* What a tick leaves behind.  grown is the layout after ensureBuffers, fs and
\* st.vel are the captured arrays after the tick wrote into them: where
\* ensureBuffers allocated, the field holds the new array and not the written one.
\* covered: the captured arrays had 2 * numNodes entries.
TickResult(l, g, grown, fs, st) ==
    [ l |-> [grown EXCEPT
               !.velocities = IF Length(grown.velocities) # Length(l.velocities)
                              THEN grown.velocities ELSE st.vel,
               !.forces = IF Length(grown.forces) # Length(l.forces)
                          THEN grown.forces ELSE fs],
      g |-> [g EXCEPT !.positions = st.pos, !.dirtyNodes = TRUE, !.dirtyEdges = TRUE],
      maxVel |-> st.maxNodeVel,
      covered |-> Length(l.velocities) >= 2 * numNodes(g)
                  /\ Length(l.forces) >= 2 * numNodes(g) ]

\* tick, "4. Velocity integration + position update", on the forces fs
TickIntegrate(l, g, fs) ==
    Then(IntegrateLoop(0, numNodes(g),
                       [pos |-> g.positions, vel |-> l.velocities, maxNodeVel |-> 0],
                       g.sizes, l.pinned, fs, l.config),
         LAMBDA st : Then(ensureBuffers(l, g),
                          LAMBDA grown : TickResult(l, g, grown, fs, st)))

\* ForceLayout.tick.  vel and forces are read from the fields BEFORE
\* ensureBuffers runs, so the tick works on the arrays it captured.
\* Result: the layout, the graph, the returned max velocity, and covered.
tick(l, g, rnd) ==
    Then(TickForces(g, l.config, l.forces, rnd), LAMBDA fs : TickIntegrate(l, g, fs))

\* ------------------------------------------------------------------------
\* ForceLayout: the public operations
\* ------------------------------------------------------------------------
TicksPerFrame == 3

\* ForceLayout.pin / unpin
pin(l, nodeId) ==
    [l EXCEPT !.pinned = l.pinned \cup {nodeId},
              !.velocities = Put(Put(l.velocities, nodeId * 2, 0), nodeId * 2 + 1, 0)]
unpin(l, nodeId) == [l EXCEPT !.pinned = l.pinned \ {nodeId}]

\* ForceLayout.reset
reset(l) ==
    [l EXCEPT !.velocities = Fill0(l.velocities),
              !.forces = Fill0(l.forces),
              !.iteration = 0]

\* ForceLayout.stop: clears the flag and calls onStop
stop(l) == [l EXCEPT !.running = FALSE]

\* ForceLayout.start: no-op when running; else one loop callback is scheduled
start(l, g) ==
    IF l.running THEN l
    ELSE [ensureBuffers(l, g) EXCEPT
            !.running = TRUE,
            !.iteration = IF ~l.animated THEN 0 ELSE l.iteration,
            !.scheduled = l.scheduled + 1]

\* a faulty setAnimated: start() is called before the mode is recorded
setAnimatedStartFirst(l, g, enabled) ==
    IF enabled /\ ~l.running
    THEN [start(l, g) EXCEPT !.animated = enabled]
    ELSE [l EXCEPT !.animated = enabled]

\* ForceLayout.setAnimated
setAnimated(l, g, enabled) ==
    LET l1 == [l EXCEPT !.animated = enabled]
    IN  IF enabled /\ ~l.running THEN start(l1, g) ELSE l1

\* a faulty break test: without `!this.animated`
StepBreaksAnimatedToo(l, maxVel) == Lt(maxVel, l.config.minVelocity)

\* the break test of step's loop after a tick
StepBreaks(l, maxVel) == ~l.animated /\ Lt(maxVel, l.config.minVelocity)

\* after `maxVel = this.tick(); this.iteration++`: acc = [l, g, maxVel, trace,
\* covered], trace = the max velocity of every tick run so far; t = tick's result
Ticked(acc, t) ==
    [ l |-> [t.l EXCEPT !.iteration = t.l.iteration + 1],
      g |-> t.g,
      maxVel |-> t.maxVel,
      trace |-> Append(acc.trace, t.maxVel),
      covered |-> acc.covered /\ t.covered ]

\* maxVel = this.tick(); this.iteration++
TickOnce(acc, rnd) == Then(tick(acc.l, acc.g, rnd), LAMBDA t : Ticked(acc, t))

RECURSIVE StepLoop(_, _, _, _)
RECURSIVE StepAfterTick(_, _, _, _)
\* the for loop of ForceLayout.step from iteration s on
StepLoop(s, steps, acc, rnd) ==
    IF s >= steps THEN acc
    ELSE Then(TickOnce(acc, rnd), LAMBDA ticked : StepAfterTick(s, steps, ticked, rnd))
\* the break test, then the next iteration
StepAfterTick(s, steps, acc, rnd) ==
    IF StepBreaks(acc.l, acc.maxVel) THEN acc
    ELSE StepLoop(s + 1, steps, acc, rnd)

\* ForceLayout.step(steps); maxVel is the value returned
step(l, g, steps, rnd) ==
    StepLoop(0, steps, [l |-> l, g |-> g, maxVel |-> 0, trace |-> << >>, covered |-> TRUE], rnd)

RECURSIVE Batch(_, _, _)
\* the for loop of the loop callback: i ticks still to run
Batch(i, acc, rnd) ==
    IF i = 0 THEN acc
    ELSE Then(TickOnce(acc, rnd), LAMBDA ticked : Batch(i - 1, ticked, rnd))

\* a faulty end test: without `if (!this.animated)`
LoopStopsAnimatedToo(l, maxVel) ==
    Lt(maxVel, l.config.minVelocity) \/ l.iteration >= l.config.maxIterations

\* a faulty end test: without the iteration cap
LoopStopsNoCap(l, maxVel) == ~l.animated /\ Lt(maxVel, l.config.minVelocity)

\* the test after the batch that ends the run
LoopStops(l, maxVel) ==
    ~l.animated /\ (Lt(maxVel, l.config.minVelocity) \/ l.iteration >= l.config.maxIterations)

\* the loop callback after its batch b: stop(), or requestAnimationFrame(loop)
LoopAfterBatch(b) ==
    IF LoopStops(b.l, b.maxVel)
    THEN [l |-> stop(b.l), g |-> b.g, maxVel |-> b.maxVel, trace |-> b.trace,
          covered |-> b.covered, onStop |-> TRUE]
    ELSE [l |-> [b.l EXCEPT !.scheduled = b.l.scheduled + 1], g |-> b.g,
          maxVel |-> b.maxVel, trace |-> b.trace, covered |-> b.covered,
          onStop |-> FALSE]

\* the callback leaves the scheduler's queue when it is run
Taken(l) == [l EXCEPT !.scheduled = l.scheduled - 1]

\* a faulty loop callback: without `if (!this.running) return`
loopUnchecked(l, g, rnd) ==
    Then(Batch(TicksPerFrame,
               [l |-> Taken(l), g |-> g, maxVel |-> 0, trace |-> << >>,
                covered |-> TRUE],
               rnd),
         LAMBDA b : LoopAfterBatch(b))

\* One run of the loop callback that start() handed to requestAnimationFrame.
\* Result: acc as in StepLoop plus onStop (stop() was called).
loop(l, g, rnd) ==
    IF ~l.running
    THEN [l |-> Taken(l), g |-> g, maxVel |-> 0, trace |-> << >>, covered |-> TRUE,
          onStop |-> FALSE]
    ELSE Then(Batch(TicksPerFrame,
                    [l |-> Taken(l), g |-> g, maxVel |-> 0, trace |-> << >>,
                     covered |-> TRUE],
                    rnd),
              LAMBDA b : LoopAfterBatch(b))

\* ------------------------------------------------------------------------
\* The force compute shader (shaders/index.ts, FORCE_COMPUTE_SHADER)
\* ------------------------------------------------------------------------
\* d is a GPUForceLayout with its device buffers. A device buffer is held as
\* the prefix the host or a lane has written: createBuffer zero-fills, so a
\* read past the prefix is 0.
GpuRead(buf, k) == IF k \in DOMAIN buf THEN buf[k] ELSE 0
Vec2(buf, i) == <<GpuRead(buf, 2 * i), GpuRead(buf, 2 * i + 1)>>
VAdd(a, b) == <<Add[a[1], b[1]], Add[a[2], b[2]]>>
VSub(a, b) == <<Sub[a[1], b[1]], Sub[a[2], b[2]]>>

\* lane i is past `if (i >= params.nodeCount) { return; }`
NodeLane(d, i) == i < d.params.nodeCount
\* and past `if (sizes[i] <= 0.0) { return; }`
SizedLane(d, i) == NodeLane(d, i) /\ ~Le(GpuRead(d.sizes, i), 0)

\* cs_repulsion: delta of the pair (i, j); a distance under 0.0001 (which at
\* this resolution is a distance of 0) is replaced by a jitter drawn from the
\* two indices
GpuJitter[dx \in Int, dy \in Int, i \in Nat, j \in Nat] ==
    IF Le(Hyp[dx, dy], Scale \div 10000)
    THEN <<(i % 7) * (Scale \div 100) - 3 * (Scale \div 100),
           (j % 7) * (Scale \div 100) - 3 * (Scale \div 100)>>
    ELSE <<dx, dy>>
\* (delta / dist) * forceMag of the pair (i, j)
GpuPairForce(d, i, j) ==
    PairForce[GpuJitter[Sub[GpuRead(d.positions, 2 * i), GpuRead(d.positions, 2 * j)],
                        Sub[GpuRead(d.positions, 2 * i + 1), GpuRead(d.positions, 2 * j + 1)],
                        i, j],
              d.config.gravitationalConstant]
\* the j of lane i's loop that are not skipped, in the order of the loop
GpuOthers(d, i) ==
    SelectSeq([k \in 1..d.params.nodeCount |-> k - 1],
              LAMBDA j : j # i /\ ~Le(GpuRead(d.sizes, j), 0))
RECURSIVE GpuRepulsionSum(_, _, _, _, _)
\* `force -= (delta / dist) * forceMag` over js[k], js[k + 1], ...
GpuRepulsionSum(d, i, js, k, force) ==
    IF k > Len(js) THEN force
    ELSE Then(GpuPairForce(d, i, js[k]),
              LAMBDA f : GpuRepulsionSum(d, i, js, k + 1, VSub(force, f)))

\* cs_attraction: fx of edge e; dist = max(length(delta), 0.0001), and a delta
\* shorter than that is zero at this resolution, as is its fx
GpuSpring[dx \in Int, dy \in Int, springK \in Int, springL \in Int] ==
    IF Le(Hyp[dx, dy], Scale \div 10000) THEN <<0, 0>>
    ELSE SpringForceAt[dx, dy, Hyp[dx, dy], springK, springL]
EdgeEnd(d, e, end) == GpuRead(d.edges, 2 * e + end - 1)
\* lane e reaches the two force writes
SpringLane(d, e) ==
    /\ e < d.params.edgeCount
    /\ ~Le(GpuRead(d.sizes, EdgeEnd(d, e, 1)), 0)
    /\ ~Le(GpuRead(d.sizes, EdgeEnd(d, e, 2)), 0)
SpringFx(d, e) ==
    GpuSpring[Sub[GpuRead(d.positions, 2 * EdgeEnd(d, e, 1)),
                  GpuRead(d.positions, 2 * EdgeEnd(d, e, 2))],
              Sub[GpuRead(d.positions, 2 * EdgeEnd(d, e, 1) + 1),
                  GpuRead(d.positions, 2 * EdgeEnd(d, e, 2) + 1)],
              d.config.springConstant, d.config.springLength]

\* cs_gravity: toCenter * gForce, dist = max(length(toCenter), 0.0001)
GpuGravity[dx \in Int, dy \in Int, cg \in Int] ==
    IF Le(Hyp[dx, dy], Scale \div 10000) THEN <<0, 0>>
    ELSE GravityVec[dx, dy, Div[cg, Hyp[dx, dy]]]

\* What lane i of each node pass stores in slot i
\* cs_reset_forces: forces[i]
cs_reset_forces(d, i) == <<0, 0>>
\* cs_repulsion: forces[i]
cs_repulsion(d, i) ==
    Then(GpuRepulsionSum(d, i, GpuOthers(d, i), 1, <<0, 0>>),
         LAMBDA force : VAdd(Vec2(d.forces, i), force))
\* cs_gravity: forces[i]
cs_gravity(d, i) ==
    VAdd(Vec2(d.forces, i),
         GpuGravity[Neg[GpuRead(d.positions, 2 * i)],
                    Neg[GpuRead(d.positions, 2 * i + 1)], d.config.centralGravity])
\* cs_integrate: velocities[i]; clamp(vel, -maxV, maxV) of a finite vel
GpuVel(d, i, c) ==
    NewVel[GpuRead(d.forces, 2 * i + c), GpuRead(d.velocities, 2 * i + c),
           d.config.damping, d.config.timestep, d.config.maxVelocity]
\* cs_integrate: positions[i]
GpuPos(d, i, c) ==
    Add[GpuRead(d.positions, 2 * i + c), Mul[GpuVel(d, i, c), d.config.timestep]]

\* ------------------------------------------------------------------------
\* The compute passes of one dispatchStep, each run to its end
\* ------------------------------------------------------------------------
WorkgroupSize == 64
\* the lanes of dispatchWorkgroups(Math.ceil(n / WORKGROUP_SIZE))
LaneCount(n) == WorkgroupSize * ((n + WorkgroupSize - 1) \div WorkgroupSize)

DispatchReset(d, lanes) ==
    [d EXCEPT !.forces =
        [k \in DOMAIN d.forces |->
            IF (k \div 2) < lanes /\ NodeLane(d, k \div 2)
            THEN cs_reset_forces(d, k \div 2)[(k % 2) + 1] ELSE d.forces[k]]]

DispatchRepulsion(d, lanes) ==
    [d EXCEPT !.forces =
        [k \in DOMAIN d.forces |->
            IF (k \div 2) < lanes /\ SizedLane(d, k \div 2)
            THEN cs_repulsion(d, k \div 2)[(k % 2) + 1] ELSE d.forces[k]]]

\* The two writes of lane e: <<e, 1>> is `forces[src] += fx` and <<e, 2>> is
\* `forces[tgt] -= fx`. Neither is atomic: a write stores what its lane read
\* plus its own term, so the slot ends as its start value plus the terms of
\* the writes that were not overwritten, of which the last is always one.
SpringWrites(d, lanes) ==
    { w \in (0..(d.params.edgeCount - 1)) \X {1, 2} : w[1] < lanes /\ SpringLane(d, w[1]) }
SpringTerm(d, w, c) == IF w[2] = 1 THEN SpringFx(d, w[1])[c] ELSE Neg[SpringFx(d, w[1])[c]]
\* the sets of writes that can be the ones a pass keeps
Survivors(d, lanes) ==
    { s \in SUBSET SpringWrites(d, lanes) :
        \A w \in SpringWrites(d, lanes) :
            \E v \in s : EdgeEnd(d, v[1], v[2]) = EdgeEnd(d, w[1], w[2]) }
RECURSIVE SpringSum(_, _, _, _, _, _)
\* component c of slot i after the kept writes of lanes e, e + 1, ...
SpringSum(d, s, i, c, e, acc) ==
    IF e >= d.params.edgeCount THEN acc
    ELSE Then(IF <<e, 1>> \in s /\ EdgeEnd(d, e, 1) = i
              THEN Add[acc, SpringTerm(d, <<e, 1>>, c)] ELSE acc,
         LAMBDA a1 :
         Then(IF <<e, 2>> \in s /\ EdgeEnd(d, e, 2) = i
              THEN Add[a1, SpringTerm(d, <<e, 2>>, c)] ELSE a1,
         LAMBDA a2 : SpringSum(d, s, i, c, e + 1, a2)))
KeepWrites(d, s) ==
    [d EXCEPT !.forces =
        [k \in DOMAIN d.forces |-> SpringSum(d, s, k \div 2, (k % 2) + 1, 0, d.forces[k])]]
\* every outcome of the attraction pass
DispatchAttraction(d, lanes) == { KeepWrites(d, s) : s \in Survivors(d, lanes) }

DispatchGravity(d, lanes) ==
    [d EXCEPT !.forces =
        [k \in DOMAIN d.forces |->
            IF (k \div 2) < lanes /\ SizedLane(d, k \div 2)
            THEN cs_gravity(d, k \div 2)[(k % 2) + 1] ELSE d.forces[k]]]

DispatchIntegrate(d, lanes) ==
    [d EXCEPT
        !.velocities =
            [k \in DOMAIN d.velocities |->
                IF (k \div 2) < lanes /\ SizedLane(d, k \div 2)
                THEN GpuVel(d, k \div 2, k % 2) ELSE d.velocities[k]],
        !.positions =
            [k \in DOMAIN d.positions |->
                IF (k \div 2) < lanes /\ SizedLane(d, k \div 2)
                THEN GpuPos(d, k \div 2, k % 2) ELSE d.positions[k]]]

\* dispatchStep(): five compute passes in one submission, the node passes over
\* the lanes of graph.numNodes and the edge pass over those of graph.numEdges
dispatchStep(d, g) ==
    { DispatchIntegrate(DispatchGravity(a, LaneCount(numNodes(g))), LaneCount(numNodes(g))) :
        a \in DispatchAttraction(
                 DispatchRepulsion(DispatchReset(d, LaneCount(numNodes(g))),
                                   LaneCount(numNodes(g))),
                 LaneCount(numEdges(g))) }
RECURSIVE Dispatches(_, _, _)
\* k calls of dispatchStep() in a row
Dispatches(k, d, g) ==
    IF k = 0 THEN {d}
    ELSE UNION { dispatchStep(x, g) : x \in Dispatches(k - 1, d, g) }

\* ------------------------------------------------------------------------
\* A compute pass lane by lane, one access to a written buffer at a time
\* ------------------------------------------------------------------------
\* A pass in flight is [name, start, pc, reg, writers]: start is the
\* GPUForceLayout when the pass began, pc[x] counts the accesses lane x has
\* made, reg[x] is what lane x holds to store, writers[i] are the lanes that
\* have stored to a slot of node i in this pass.
PassOrder == << "reset", "repulsion", "attraction", "gravity", "integrate" >>
NoPass == [ name |-> "none", start |-> << >>, pc |-> << >>, reg |-> << >>, writers |-> << >> ]

\* the lanes of a pass that get past their early returns; count is the
\* graph's node or edge count the workgroups are sized by
PassLanes(d, name, count) ==
    IF name = "attraction"
    THEN { e \in 0..(d.params.edgeCount - 1) : e < LaneCount(count) /\ SpringLane(d, e) }
    ELSE IF name = "reset"
    THEN { i \in 0..(d.params.nodeCount - 1) : i < LaneCount(count) }
    ELSE { i \in 0..(d.params.nodeCount - 1) : i < LaneCount(count) /\ SizedLane(d, i) }
BeginPass(d, name, count) ==
    [ name |-> name, start |-> d,
      pc |-> [x \in PassLanes(d, name, count) |-> 0],
      reg |-> [x \in PassLanes(d, name, count) |-> << >>],
      writers |-> [i \in 0..(d.params.nodeCount - 1) |-> {}] ]
\* the accesses of a lane: a load and a store, twice in cs_attraction
LaneEnd(name) == IF name = "attraction" THEN 4 ELSE 2

\* a faulty pass: every lane accesses the slot of node 0
LaneSlotShared(d, p, x) == 0
\* the node whose slot lane x of the pass accesses next
LaneSlot(d, p, x) ==
    IF p.name = "attraction" THEN EdgeEnd(d, x, IF p.pc[x] < 2 THEN 1 ELSE 2) ELSE x

\* what lane x holds after its next load
LaneLoad(d, p, x) ==
    IF p.name = "reset" THEN cs_reset_forces(d, x)
    ELSE IF p.name = "repulsion" THEN cs_repulsion(d, LaneSlot(d, p, x))
    ELSE IF p.name = "gravity" THEN cs_gravity(d, LaneSlot(d, p, x))
    ELSE IF p.name = "integrate"
    THEN << GpuVel(d, LaneSlot(d, p, x), 0), GpuVel(d, LaneSlot(d, p, x), 1),
            GpuPos(d, LaneSlot(d, p, x), 0), GpuPos(d, LaneSlot(d, p, x), 1) >>
    ELSE IF p.pc[x] = 0 THEN VAdd(Vec2(d.forces, LaneSlot(d, p, x)), SpringFx(d, x))
    ELSE VSub(Vec2(d.forces, LaneSlot(d, p, x)), SpringFx(d, x))

\* buf with the vec2 v in slot i
StoreVec2(buf, i, v) == [buf EXCEPT ![2 * i] = v[1], ![2 * i + 1] = v[2]]
\* the buffers after the next store of lane x
LaneStore(d, p, x) ==
    IF p.name = "integrate"
    THEN [d EXCEPT !.velocities = StoreVec2(@, LaneSlot(d, p, x), <<p.reg[x][1], p.reg[x][2]>>),
                   !.positions = StoreVec2(@, LaneSlot(d, p, x), <<p.reg[x][3], p.reg[x][4]>>)]
    ELSE [d EXCEPT !.forces = StoreVec2(@, LaneSlot(d, p, x), p.reg[x])]

\* lane x makes its next access: [d, p]
LaneStep(d, p, x) ==
    IF p.pc[x] % 2 = 0
    THEN [ d |-> d,
           p |-> [p EXCEPT !.pc[x] = @ + 1, !.reg[x] = LaneLoad(d, p, x)] ]
    ELSE [ d |-> LaneStore(d, p, x),
           p |-> [p EXCEPT !.pc[x] = @ + 1,
                           !.writers[LaneSlot(d, p, x)] = @ \cup {x}] ]

\* every lane of the pass has returned
PassDone(p) == \A x \in DOMAIN p.pc : p.pc[x] = LaneEnd(p.name)
\* the pass after p in dispatchStep, "none" after the last
PassAfter(p) ==
    IF p.name = "integrate" THEN "none"
    ELSE PassOrder[(CHOOSE k \in 1..4 : PassOrder[k] = p.name) + 1]

\* ------------------------------------------------------------------------
\* GPUForceLayout (layout/GPUForceLayout.ts): the host side
\* ------------------------------------------------------------------------
\* Math.max(n, 64), the least buffer capacity
MinCapacity == 64
\* allocateBuffers(): fresh zero-filled buffers sized for the graph
allocateBuffers(d, g) ==
    [d EXCEPT !.positions = Float32Array(0), !.velocities = Float32Array(0),
              !.forces = Float32Array(0), !.edges = Float32Array(0),
              !.sizes = Float32Array(0), !.readback = Float32Array(0),
              !.nodeCapacity = IF numNodes(g) > MinCapacity THEN numNodes(g) ELSE MinCapacity,
              !.edgeCapacity = IF numEdges(g) > MinCapacity THEN numEdges(g) ELSE MinCapacity]

\* new GPUForceLayout(device, graph, opts)
NewGPUForceLayout(g, opts) ==
    allocateBuffers(
        [ config |-> opts, running |-> FALSE, iteration |-> 0,
          animationId |-> FALSE,   \* animationId is not 0
          frame |-> FALSE,         \* the callback of animationId is still queued
          mapping |-> 0 - 1,       \* the n of the readback whose mapAsync is pending, or -1
          rejected |-> 0,          \* the loop closures that await a rejected mapAsync
          nodeCapacity |-> 0, edgeCapacity |-> 0,
          params |-> [nodeCount |-> 0, edgeCount |-> 0],
          positions |-> Float32Array(0), velocities |-> Float32Array(0),
          forces |-> Float32Array(0), edges |-> Float32Array(0),
          sizes |-> Float32Array(0), readback |-> Float32Array(0) ],
        g)

\* queue.writeBuffer(buf, 0, src, 0, count): the first count elements of src
WriteBuffer(buf, src, count) ==
    [k \in 0..((IF Length(buf) > count THEN Length(buf) ELSE count) - 1) |->
        IF k < count THEN src[k] ELSE buf[k]]

\* the buffers after the (re)allocation of uploadData, if there is one
Allocated(d, g) ==
    IF numNodes(g) > d.nodeCapacity \/ numEdges(g) > d.edgeCapacity
    THEN allocateBuffers(d, g) ELSE d
\* the writeBuffer calls of uploadData
Written(d, g) ==
    [d EXCEPT !.positions = WriteBuffer(@, g.positions, numNodes(g) * 2),
              !.sizes = WriteBuffer(@, g.sizes, numNodes(g)),
              !.edges = WriteBuffer(@, g.edgeIndices, numEdges(g) * 2),
              !.velocities = WriteBuffer(@, Float32Array(numNodes(g) * 2), numNodes(g) * 2),
              !.forces = WriteBuffer(@, Float32Array(numNodes(g) * 2), numNodes(g) * 2)]
uploadData(d, g) == Written(Allocated(d, g), g)

uploadParams(d, g) ==
    [d EXCEPT !.params = [nodeCount |-> numNodes(g), edgeCount |-> numEdges(g)]]

\* readbackPositions() up to its await: copyBufferToBuffer of n * 2 floats into
\* the readback buffer, then mapAsync. A copy longer than the buffers is a
\* validation error of the device: the submission is dropped, nothing is
\* copied and nothing is thrown to the caller. So is a copy into a buffer
\* whose map is pending, and mapAsync on that buffer returns a rejected
\* promise: the closure that awaits it ends with that rejection.
CopyToReadback(d, n) ==
    IF n > d.nodeCapacity THEN d.readback
    ELSE [k \in 0..((IF Length(d.readback) > n * 2 THEN Length(d.readback) ELSE n * 2) - 1) |->
            IF k < n * 2 THEN GpuRead(d.positions, k) ELSE d.readback[k]]
BeginReadback(d, g) ==
    IF d.mapping >= 0 THEN [d EXCEPT !.rejected = @ + 1]
    ELSE [d EXCEPT !.readback = CopyToReadback(d, numNodes(g)), !.mapping = numNodes(g)]

\* the floats graph.positions.set(data.subarray(0, n * 2)) writes: data is the
\* whole readback buffer, and subarray stops at its end
ReadbackLength(d) == IF d.mapping > d.nodeCapacity THEN d.nodeCapacity * 2 ELSE d.mapping * 2
\* a faulty readback: the positions are written and the flags left alone
EndReadbackUnflagged(d, g) ==
    [ d |-> [d EXCEPT !.mapping = 0 - 1],
      g |-> [g EXCEPT !.positions =
                          [k \in DOMAIN g.positions |->
                              IF k < ReadbackLength(d) THEN GpuRead(d.readback, k)
                              ELSE g.positions[k]]] ]
\* readbackPositions() after its await: [d, g]
EndReadback(d, g) ==
    [ d |-> [d EXCEPT !.mapping = 0 - 1],
      g |-> [g EXCEPT !.positions =
                          [k \in DOMAIN g.positions |->
                              IF k < ReadbackLength(d) THEN GpuRead(d.readback, k)
                              ELSE g.positions[k]],
                      !.dirtyNodes = TRUE, !.dirtyEdges = TRUE] ]

\* the loop closure of start() up to its await: every outcome
GpuLoopBegin(d, g) ==
    IF ~d.running THEN {d}
    ELSE { BeginReadback([x EXCEPT !.iteration = d.iteration + d.config.stepsPerFrame], g) :
             x \in Dispatches(d.config.stepsPerFrame, d, g) }
\* the loop closure after its await
GpuLoopEnd(d) ==
    IF d.iteration < d.config.maxIterations /\ d.running
    THEN [d EXCEPT !.animationId = TRUE, !.frame = TRUE]
    ELSE [d EXCEPT !.running = FALSE]

\* GPUForceLayout.start(), which returns at the await of the first readback
gpuStart(d, g) ==
    IF d.running THEN {d}
    ELSE GpuLoopBegin(
             uploadParams(uploadData([d EXCEPT !.running = TRUE, !.iteration = 0], g), g), g)

\* GPUForceLayout.stop()
gpuStop(d) ==
    [d EXCEPT !.running = FALSE,
              !.frame = IF d.animationId THEN FALSE ELSE @,
              !.animationId = FALSE]

\* ------------------------------------------------------------------------
\* Renderer (core/Renderer.ts): what it holds of the graph's positions
\* ------------------------------------------------------------------------
\* device: the renderer has a GPUDevice (getDevice() is not null)
NewRenderer(device) ==
    [ device |-> device, gpuPositions |-> Float32Array(0), edgeVertexData |-> << >> ]

\* uploadNodeData(): [r, g]
uploadNodeData(r, g) ==
    [ r |-> [r EXCEPT !.gpuPositions =
                          [k \in 0..((IF Length(r.gpuPositions) > numNodes(g) * 2
                                      THEN Length(r.gpuPositions) ELSE numNodes(g) * 2) - 1) |->
                              IF k < numNodes(g) * 2 THEN g.positions[k]
                              ELSE r.gpuPositions[k]]],
      g |-> [g EXCEPT !.dirtyNodes = FALSE] ]

\* the edges uploadEdgeData draws, in index order
VisibleEdges(g) ==
    SelectSeq([k \in 1..numEdges(g) |-> k - 1],
              LAMBDA e : /\ g.nodeTags[g.edgeIndices[e * 2]]
                         /\ g.edgeIndices[e * 2] < g.nodeCount
                         /\ g.nodeTags[g.edgeIndices[e * 2 + 1]]
                         /\ g.edgeIndices[e * 2 + 1] < g.nodeCount
                         /\ isEdgeActive(g, e))
\* srcX, srcY, tgtX, tgtY of the visible edges
EdgeVertices(g) ==
    [k \in 1..Len(VisibleEdges(g)) |->
        << g.positions[g.edgeIndices[VisibleEdges(g)[k] * 2] * 2],
           g.positions[g.edgeIndices[VisibleEdges(g)[k] * 2] * 2 + 1],
           g.positions[g.edgeIndices[VisibleEdges(g)[k] * 2 + 1] * 2],
           g.positions[g.edgeIndices[VisibleEdges(g)[k] * 2 + 1] * 2 + 1] >>]
\* uploadEdgeData(): [r, g]
uploadEdgeData(r, g) ==
    [ r |-> [r EXCEPT !.edgeVertexData = EdgeVertices(g)],
      g |-> [g EXCEPT !.dirtyEdges = FALSE] ]

\* the uploads of renderFrame(): [r, g]
renderFrame(r, g) ==
    Then(IF g.dirtyNodes THEN uploadNodeData(r, g) ELSE [r |-> r, g |-> g],
         LAMBDA a : IF a.g.dirtyEdges THEN uploadEdgeData(a.r, a.g) ELSE a)

\* ------------------------------------------------------------------------
\* State
\* ------------------------------------------------------------------------
\* ------------------------------------------------------------------------
\* InteractionController (interaction/Controls.ts): drags and their pins
\* ------------------------------------------------------------------------
\* A controller is [active, nodeId, animatedMode, animatedLayout, touches]:
\* drag.active, drag.nodeId (-1 for null), the animated mode with its layout
\* (an index into the layouts, 0 for null), and the fingers on the canvas.
NoNode == 0 - 1
NewControls ==
    [ active |-> FALSE, nodeId |-> NoNode, animatedMode |-> FALSE,
      animatedLayout |-> 0, touches |-> 0 ]

\* InteractionController.setAnimatedMode(enabled, layout)
setAnimatedMode(c, enabled, L) ==
    [c EXCEPT !.animatedMode = enabled, !.animatedLayout = L]

\* `if (this.animatedMode && this.animatedLayout)`
PinsDrags(c) == c.animatedMode /\ c.animatedLayout # 0

\* onMouseDown with hitTest's result, and onTouchStart for one finger: [c, ls]
onMouseDown(c, ls, hitNode) ==
    [ c  |-> [c EXCEPT !.active = TRUE, !.nodeId = hitNode],
      ls |-> IF hitNode # NoNode /\ PinsDrags(c)
             THEN [ls EXCEPT ![c.animatedLayout] = pin(@, hitNode)]
             ELSE ls ]

\* onMouseUp, and onTouchEnd when no finger is left: [c, ls]
onMouseUp(c, ls) ==
    IF ~c.active THEN [c |-> c, ls |-> ls]
    ELSE [ c  |-> [c EXCEPT !.active = FALSE, !.nodeId = NoNode],
           ls |-> IF c.nodeId # NoNode /\ PinsDrags(c)
                  THEN [ls EXCEPT ![c.animatedLayout] = unpin(@, c.nodeId)]
                  ELSE ls ]

\* onTouchStart, e.touches.length = touches: two fingers start a pinch and
\* cancel the drag of the first
onTouchStart(c, ls, touches, hitNode) ==
    IF touches = 2
    THEN [c |-> [c EXCEPT !.active = FALSE, !.nodeId = NoNode, !.touches = touches],
          ls |-> ls]
    ELSE IF touches # 1 THEN [c |-> [c EXCEPT !.touches = touches], ls |-> ls]
    ELSE onMouseDown([c EXCEPT !.touches = touches], ls, hitNode)

\* onTouchEnd, the handler of touchend and touchcancel, e.touches.length = touches
onTouchEnd(c, ls, touches) ==
    IF touches > 0 THEN [c |-> [c EXCEPT !.touches = touches], ls |-> ls]
    ELSE onMouseUp([c EXCEPT !.touches = touches], ls)
VARIABLES
    graph,     \* the Graph shared by the layouts
    layouts,   \* every ForceLayout constructed so far, in order of construction
    layout,    \* GraphGPU.layout: an index into layouts, 0 for null
    gpuLayout, \* GraphGPU.gpuLayout: << >> for null, or the one GPUForceLayout
    gpuPass,   \* the compute pass in flight on the device
    renderer,  \* the Renderer of the GraphGPU
    clock,     \* ticks executed so far
    calls,     \* calls made so far
    controls,  \* the InteractionController of the GraphGPU
    hist       \* what the last operation did (observation only)

vars == <<graph, layouts, layout, gpuLayout, gpuPass, renderer, clock, calls, controls,
          hist>>

\* Inputs
\* where a drag puts the node it holds
DragPosVals == { <<0, 0 - Scale>> }
SizeVals == { DefaultNodeSize, 0 }
\* the two Math.random() draws of a coincident pair; each draw is in [0, 1)
RandomVals == { <<0, 0>>, <<Scale \div 2, Scale \div 4>> }
\* where a caller puts a new node
NewPosVals == { <<0, Scale \div 2>> }

\* LayoutOptions: the defaults at brute force with a short iteration cap, and a
\* springs-only configuration (the two-node scenario of the specification)
OptsDefault ==
    [ gravitationalConstant |-> 0 - 250, barnesHutTheta |-> 0,
      springLength |-> 200, springConstant |-> 60, centralGravity |-> 12,
      damping |-> 180, timestep |-> 350, maxVelocity |-> 60,
      minVelocity |-> 1, maxIterations |-> 3 ]
OptsSprings ==
    [ gravitationalConstant |-> 0, barnesHutTheta |-> 0,
      springLength |-> 200, springConstant |-> 60, centralGravity |-> 0,
      damping |-> 180, timestep |-> 350, maxVelocity |-> 60,
      minVelocity |-> 20, maxIterations |-> 6 ]
\* the defaults with the Barnes-Hut repulsion (barnesHutTheta 0.5)
OptsBarnesHut == [OptsDefault EXCEPT !.barnesHutTheta = Scale \div 2]
OptsVals == { OptsDefault, OptsSprings }

\* graphs of two nodes, apart or coincident, with or without the edge 0 -> 1
InitGraphs ==
    { LET g2 == addNode(addNode(NewGraph, 0 - Scale, 0, DefaultNodeSize),
                        p1[1], p1[2], DefaultNodeSize)
      IN  IF e THEN addEdge(g2, 0, 1) ELSE g2 :
      p1 \in { <<0 - Scale, 0>>, <<Scale, 0>> }, e \in BOOLEAN }

Layouts == 1..Len(layouts)

NoHist(n) ==
    [ op |-> "init", L |-> 0, n |-> 0, trace |-> << >>, ret |-> 0,
      onStop |-> FALSE, covered |-> TRUE, frames |-> [i \in 1..n |-> 0],
      demoted |-> {} ]

\* The layouts whose current run was in animated mode when setAnimated(false)
\* was called on it, after the operation op on layout L: a run begins with a
\* start() or a setAnimated(true) that finds the layout not running, and
\* setAnimated(true) puts a run back in animated mode.
Demoted(op, L) ==
    IF L \notin Layouts THEN hist.demoted
    ELSE IF op = "setAnimated(false)" /\ layouts[L].running /\ layouts[L].animated
         THEN hist.demoted \cup {L}
    ELSE IF op = "setAnimated(true)" \/ (op = "start" /\ ~layouts[L].running)
         THEN hist.demoted \ {L}
    ELSE hist.demoted

\* the operation op on layout L ran the ticks of r (a result of step or loop)
Ran(op, L, n, r, onStop, frames) ==
    [ op |-> op, L |-> L, n |-> n, trace |-> r.trace, ret |-> r.maxVel,
      onStop |-> onStop, covered |-> r.covered, frames |-> frames,
      demoted |-> Demoted(op, L) ]
\* the operation op on layout L ran no tick
Did(op, L, onStop, frames) ==
    [ op |-> op, L |-> L, n |-> 0, trace |-> << >>, ret |-> 0,
      onStop |-> onStop, covered |-> TRUE, frames |-> frames,
      demoted |-> Demoted(op, L) ]

\* One ForceLayout on a populated graph
Init ==
    /\ graph \in InitGraphs
    /\ \E opts \in OptsVals : layouts = << NewForceLayout(graph, opts) >>
    /\ layout = 1
    /\ gpuLayout = << >>
    /\ gpuPass = NoPass
    /\ renderer = NewRenderer(FALSE)
    /\ clock = 0
    /\ calls = 0
    /\ controls = NewControls
    /\ hist = NoHist(1)

\* one more call of a caller
Called == calls < MaxCalls /\ calls' = calls + 1
SetLayout(L, l) == [layouts EXCEPT ![L] = l]

\* ------------------------------------------------------------------------
\* Actions: the graph's callers
\* ------------------------------------------------------------------------
AddNode ==
    \E p \in NewPosVals, size \in SizeVals :
        /\ graph.nodeCount < Length(graph.sizes)
        /\ graph' = addNode(graph, p[1], p[2], size)
        /\ hist' = Did("addNode", 0, FALSE, hist.frames)
        /\ Called /\ UNCHANGED <<gpuLayout, gpuPass, renderer, layouts, layout, clock, controls>>

\* an external caller moves a node it has pinned (a drag)
SetNodePosition ==
    \E L \in Layouts, p \in DragPosVals : \E id \in layouts[L].pinned :
        /\ graph' = setNodePosition(graph, id, p[1], p[2])
        /\ hist' = Did("setNodePosition", 0, FALSE, hist.frames)
        /\ Called /\ UNCHANGED <<gpuLayout, gpuPass, renderer, layouts, layout, clock, controls>>

\* a caller hides or shows a node
SetNodeSize ==
    \E id \in 0..(graph.nodeCount - 1), size \in SizeVals :
        /\ graph.sizes[id] # size
        /\ graph' = setNodeSize(graph, id, size)
        /\ hist' = Did("setNodeSize", 0, FALSE, hist.frames)
        /\ Called /\ UNCHANGED <<gpuLayout, gpuPass, renderer, layouts, layout, clock, controls>>

\* ------------------------------------------------------------------------
\* Actions: the ForceLayout's callers and the host scheduler
\* ------------------------------------------------------------------------
Pin(L) ==
    \E id \in 0..(graph.nodeCount - 1) :
        /\ layouts' = SetLayout(L, pin(layouts[L], id))
        /\ hist' = Did("pin", L, FALSE, hist.frames)
        /\ Called /\ UNCHANGED <<gpuLayout, gpuPass, renderer, graph, layout, clock, controls>>

Unpin(L) ==
    \E id \in layouts[L].pinned :
        /\ layouts' = SetLayout(L, unpin(layouts[L], id))
        /\ hist' = Did("unpin", L, FALSE, hist.frames)
        /\ Called /\ UNCHANGED <<gpuLayout, gpuPass, renderer, graph, layout, clock, controls>>

Reset(L) ==
    /\ layouts' = SetLayout(L, reset(layouts[L]))
    /\ hist' = Did("reset", L, FALSE, hist.frames)
    /\ Called /\ UNCHANGED <<gpuLayout, gpuPass, renderer, graph, layout, clock, controls>>

\* r is what step(steps) did on layout L
Stepped(L, steps, r) ==
    /\ layouts' = SetLayout(L, r.l)
    /\ graph' = r.g
    /\ clock' = clock + Len(r.trace)
    /\ hist' = Ran("step", L, steps, r, FALSE, hist.frames)

Step(L) ==
    \E steps \in 0..MaxSteps, rnd \in RandomVals :
        /\ clock + steps <= MaxTicks
        /\ \E r \in { step(layouts[L], graph, steps, rnd) } : Stepped(L, steps, r)
        /\ Called /\ UNCHANGED <<gpuLayout, gpuPass, renderer, layout, controls>>

Start(L) ==
    /\ layouts' = SetLayout(L, start(layouts[L], graph))
    /\ hist' = Did("start", L, FALSE,
                   IF layouts[L].running THEN hist.frames
                   ELSE [hist.frames EXCEPT ![L] = 0])
    /\ Called /\ UNCHANGED <<gpuLayout, gpuPass, renderer, graph, layout, clock, controls>>

Stop(L) ==
    /\ layouts' = SetLayout(L, stop(layouts[L]))
    /\ hist' = Did("stop", L, TRUE, hist.frames)
    /\ Called /\ UNCHANGED <<gpuLayout, gpuPass, renderer, graph, layout, clock, controls>>

SetAnimated(L) ==
    \E enabled \in BOOLEAN :
        /\ layouts' = SetLayout(L, setAnimated(layouts[L], graph, enabled))
        /\ hist' = Did(IF enabled THEN "setAnimated(true)" ELSE "setAnimated(false)",
                       L, FALSE,
                       IF enabled /\ ~layouts[L].running
                       THEN [hist.frames EXCEPT ![L] = 0] ELSE hist.frames)
        /\ Called /\ UNCHANGED <<gpuLayout, gpuPass, renderer, graph, layout, clock, controls>>

\* the host scheduler runs one pending loop callback of layout L
\* r is what the loop callback of layout L did
Looped(L, r) ==
    /\ layouts' = SetLayout(L, r.l)
    /\ graph' = r.g
    /\ clock' = clock + Len(r.trace)
    /\ hist' = Ran("loop", L, 0, r, r.onStop,
                   IF layouts[L].running
                   THEN [hist.frames EXCEPT ![L] = @ + 1] ELSE hist.frames)

Loop(L) ==
    \E rnd \in RandomVals :
        /\ layouts[L].scheduled > 0
        /\ layouts[L].running => clock + TicksPerFrame <= MaxTicks
        /\ \E r \in { loop(layouts[L], graph, rnd) } : Looped(L, r)
        /\ UNCHANGED <<gpuLayout, gpuPass, renderer, layout, calls, controls>>

Next ==
    \/ AddNode
    \/ SetNodePosition
    \/ \E L \in Layouts : Pin(L)
    \/ \E L \in Layouts : Unpin(L)
    \/ \E L \in Layouts : Reset(L)
    \/ \E L \in Layouts : Step(L)
    \/ \E L \in Layouts : Start(L)
    \/ \E L \in Layouts : Stop(L)
    \/ \E L \in Layouts : SetAnimated(L)
    \/ \E L \in Layouts : Loop(L)

Spec == Init /\ [][Next]_vars

\* ------------------------------------------------------------------------
\* The physics of both repulsion strategies on graphs with hidden nodes
\* ------------------------------------------------------------------------
PhysicsOptsVals == { OptsDefault, OptsBarnesHut }

InitPhysics ==
    /\ graph \in InitGraphs
    /\ \E opts \in PhysicsOptsVals : layouts = << NewForceLayout(graph, opts) >>
    /\ layout = 1
    /\ gpuLayout = << >>
    /\ gpuPass = NoPass
    /\ renderer = NewRenderer(FALSE)
    /\ clock = 0
    /\ calls = 0
    /\ controls = NewControls
    /\ hist = NoHist(1)

NextPhysics ==
    \/ AddNode
    \/ SetNodeSize
    \/ Pin(1)
    \/ Step(1)
    \/ Start(1)
    \/ Loop(1)

SpecPhysics == InitPhysics /\ [][NextPhysics]_vars

\* ------------------------------------------------------------------------
\* A bounded run left to the host scheduler: start() once, then only frames
\* ------------------------------------------------------------------------
\* the iteration caps tried (the cap is reached within MaxTicks ticks)
CapVals == { 0, 1, 3, 4, 6 }
LoopOptsVals == { [o EXCEPT !.maxIterations = m] : o \in OptsVals, m \in CapVals }

InitLoop ==
    /\ graph \in InitGraphs
    /\ \E opts \in LoopOptsVals : layouts = << NewForceLayout(graph, opts) >>
    /\ layout = 1
    /\ gpuLayout = << >>
    /\ gpuPass = NoPass
    /\ renderer = NewRenderer(FALSE)
    /\ clock = 0
    /\ calls = 0
    /\ controls = NewControls
    /\ hist = NoHist(1)

StartOnce == calls = 0 /\ Start(1)

LoopFrame == Loop(1)

NextLoop == StartOnce \/ LoopFrame

\* requestAnimationFrame runs every callback it was handed
SpecLoop == InitLoop /\ [][NextLoop]_vars /\ WF_vars(LoopFrame)

\* ------------------------------------------------------------------------
\* GraphGPU (the facade): its CPU layouts
\* ------------------------------------------------------------------------
\* GraphGPUOptions.layout of the instance
AppLayoutOptions == OptsDefault

InitApp ==
    /\ graph \in InitGraphs
    /\ layouts = << >>
    /\ layout = 0
    /\ gpuLayout = << >>
    /\ gpuPass = NoPass
    /\ renderer = NewRenderer(FALSE)
    /\ clock = 0
    /\ calls = 0
    /\ controls = NewControls
    /\ hist = NoHist(0)

\* this.layout = new ForceLayout(this.graph, opts)
Construct(opts) == Append(layouts, NewForceLayout(graph, opts))
Constructed(frames) == Append(frames, 0)

\* GraphGPU.startLayout(opts): a new ForceLayout replaces this.layout and is started
StartLayout ==
    \E opts \in OptsVals :
        /\ Len(layouts) < MaxLayouts
        /\ layouts' = Append(layouts, start(NewForceLayout(graph, opts), graph))
        /\ layout' = Len(layouts) + 1
        /\ hist' = Did("startLayout", Len(layouts) + 1, FALSE, Constructed(hist.frames))
        /\ Called /\ UNCHANGED <<gpuLayout, gpuPass, renderer, graph, clock, controls>>

\* GraphGPU.stopLayout(): this.layout?.stop()
StopLayout ==
    /\ layouts' = IF layout = 0 THEN layouts ELSE SetLayout(layout, stop(layouts[layout]))
    /\ hist' = Did("stopLayout", layout, layout # 0, hist.frames)
    /\ Called /\ UNCHANGED <<gpuLayout, gpuPass, renderer, graph, layout, clock, controls>>

\* `if (!this.layout) this.layout = new ForceLayout(this.graph, this.opts.layout)`:
\* the layouts constructed, this.layout, and the frame counters afterwards
Ensured == IF layout = 0 THEN Construct(AppLayoutOptions) ELSE layouts
EnsuredLayout == IF layout = 0 THEN Len(layouts) + 1 ELSE layout
EnsuredFrames == IF layout = 0 THEN Constructed(hist.frames) ELSE hist.frames

\* r is what this.layout.step(steps) did
AppStepped(steps, r) ==
    /\ layouts' = [Ensured EXCEPT ![EnsuredLayout] = r.l]
    /\ layout' = EnsuredLayout
    /\ graph' = r.g
    /\ clock' = clock + Len(r.trace)
    /\ hist' = Ran("stepLayout", EnsuredLayout, steps, r, FALSE, EnsuredFrames)

\* GraphGPU.stepLayout(steps): constructs this.layout when there is none
StepLayout ==
    \E steps \in 0..MaxSteps, rnd \in RandomVals :
        /\ layout = 0 => Len(layouts) < MaxLayouts
        /\ clock + steps <= MaxTicks
        /\ \E r \in { step(Ensured[EnsuredLayout], graph, steps, rnd) } :
               AppStepped(steps, r)
        /\ Called /\ UNCHANGED <<gpuLayout, gpuPass, renderer, controls>>

\* GraphGPU.setAnimated(enabled): constructs this.layout when there is none
AppSetAnimated ==
    \E enabled \in BOOLEAN :
        /\ layout = 0 => Len(layouts) < MaxLayouts
        /\ layouts' = [Ensured EXCEPT
                         ![EnsuredLayout] = setAnimated(Ensured[EnsuredLayout], graph, enabled)]
        /\ layout' = EnsuredLayout
        /\ controls' = setAnimatedMode(controls, enabled, EnsuredLayout)
        /\ hist' = Did(IF enabled THEN "setAnimated(true)" ELSE "setAnimated(false)",
                       EnsuredLayout, FALSE, EnsuredFrames)
        /\ Called /\ UNCHANGED <<gpuLayout, gpuPass, renderer, graph, clock>>

\* GraphGPU.put(tag, ..., {x, y, size})
AppPut == AddNode

\* ------------------------------------------------------------------------
\* GraphGPU (the facade): the GPU layout and the renderer
\* ------------------------------------------------------------------------
\* stepsPerFrame of the options startGPULayout is called with
StepsPerFrameVals == { 1, 3 }
\* `{ ...DEFAULTS, ...opts }` of the GPUForceLayout constructor: the options
\* object is the one the fallback hands to startLayout
GpuConfig(opts, stepsPerFrame) ==
    [ gravitationalConstant |-> opts.gravitationalConstant,
      springLength |-> opts.springLength, springConstant |-> opts.springConstant,
      centralGravity |-> opts.centralGravity, damping |-> opts.damping,
      timestep |-> opts.timestep, maxVelocity |-> opts.maxVelocity,
      stepsPerFrame |-> stepsPerFrame, maxIterations |-> opts.maxIterations ]

\* the layouts after `this.stopLayout()`
StoppedLayouts == IF layout = 0 THEN layouts ELSE SetLayout(layout, stop(layouts[layout]))

\* GraphGPU.startGPULayout(opts) up to the await in GPUForceLayout.start().
\* stopGPULayout() destroys the buffers of the layout it drops, which rejects
\* its pending mapAsync: the dropped layout writes nothing any more.
StartGPULayout ==
    \E opts \in OptsVals, stepsPerFrame \in StepsPerFrameVals :
        /\ Called
        /\ IF renderer.device
           THEN /\ clock + stepsPerFrame <= MaxTicks
                /\ layouts' = StoppedLayouts
                /\ \E d \in gpuStart(NewGPUForceLayout(graph, GpuConfig(opts, stepsPerFrame)), graph) :
                       gpuLayout' = << d >>
                /\ clock' = clock + stepsPerFrame
                /\ hist' = Did("startGPULayout", 0, layout # 0, hist.frames)
                /\ UNCHANGED <<graph, layout, gpuPass, renderer, controls>>
           ELSE /\ Len(layouts) < MaxLayouts
                /\ layouts' = Append(StoppedLayouts,
                                     start(NewForceLayout(graph, opts), graph))
                /\ layout' = Len(layouts) + 1
                /\ gpuLayout' = << >>
                /\ hist' = Did("startGPULayout", Len(layouts) + 1, layout # 0,
                               Constructed(hist.frames))
                /\ UNCHANGED <<graph, clock, gpuPass, renderer, controls>>

\* GraphGPU.stopGPULayout(): stop(), destroy(), this.gpuLayout = null
StopGPULayout ==
    /\ gpuLayout' = << >>
    /\ hist' = Did("stopGPULayout", 0, FALSE, hist.frames)
    /\ Called /\ UNCHANGED <<graph, layouts, layout, clock, gpuPass, renderer, controls>>

\* the host scheduler runs the queued loop callback of the GPU layout
GpuFrame ==
    /\ gpuLayout # << >>
    /\ gpuLayout[1].frame
    /\ gpuLayout[1].running => clock + gpuLayout[1].config.stepsPerFrame <= MaxTicks
    /\ \E d \in GpuLoopBegin([gpuLayout[1] EXCEPT !.frame = FALSE], graph) :
           gpuLayout' = << d >>
    /\ clock' = clock + (IF gpuLayout[1].running THEN gpuLayout[1].config.stepsPerFrame ELSE 0)
    /\ hist' = Did("gpuFrame", 0, FALSE, hist.frames)
    /\ UNCHANGED <<graph, layouts, layout, calls, gpuPass, renderer, controls>>

\* the pending mapAsync of the GPU layout resolves
GpuReadback ==
    /\ gpuLayout # << >>
    /\ gpuLayout[1].mapping >= 0
    /\ \E r \in { EndReadback(gpuLayout[1], graph) } :
           /\ graph' = r.g
           /\ gpuLayout' = << GpuLoopEnd(r.d) >>
    /\ hist' = Did("readback", 0, FALSE, hist.frames)
    /\ UNCHANGED <<layouts, layout, clock, calls, gpuPass, renderer, controls>>

\* the render loop draws a frame that has something to upload
RenderFrame ==
    /\ graph.dirtyNodes \/ graph.dirtyEdges
    /\ \E a \in { renderFrame(renderer, graph) } :
           /\ renderer' = a.r
           /\ graph' = a.g
    /\ hist' = Did("renderFrame", 0, FALSE, hist.frames)
    /\ UNCHANGED <<layouts, layout, gpuLayout, gpuPass, clock, calls, controls>>


NextApp ==
    \/ StartLayout
    \/ StopLayout
    \/ StepLayout
    \/ AppSetAnimated
    \/ AppPut
    \/ \E L \in Layouts : Loop(L)
    \/ StartGPULayout

\* a GraphGPU whose renderer has no compute-capable device
SpecApp == InitApp /\ [][NextApp]_vars

\* ------------------------------------------------------------------------
\* GraphGPU with its renderer and a compute-capable device
\* ------------------------------------------------------------------------
InitRender ==
    /\ graph \in InitGraphs
    /\ layouts = << >>
    /\ layout = 0
    /\ gpuLayout = << >>
    /\ gpuPass = NoPass
    /\ renderer = NewRenderer(TRUE)
    /\ clock = 0
    /\ calls = 0
    /\ controls = NewControls
    /\ hist = NoHist(0)

\* the calls made in a run of this specification
MaxRenderCalls == 2
RenderCall == calls < MaxRenderCalls

NextRender ==
    \/ RenderCall /\ StartGPULayout
    \/ RenderCall /\ StopGPULayout
    \/ RenderCall /\ StepLayout
    \/ RenderCall /\ AppPut
    \/ GpuFrame
    \/ GpuReadback
    \/ RenderFrame

SpecRender == InitRender /\ [][NextRender]_vars

\* ------------------------------------------------------------------------
\* A GPU layout on a graph that fills the least buffer capacity
\* ------------------------------------------------------------------------
\* the nodes the graph can grow by
MaxGrowth == 2
RECURSIVE WithHidden(_, _)
\* g after k calls of addNode({x: 0, y: 0, size: 0})
WithHidden(g, k) == IF k = 0 THEN g ELSE WithHidden(addNode(g, 0, 0, 0), k - 1)
\* two visible nodes and hidden ones up to a count of MinCapacity or one less
FullGraphs ==
    { WithHidden(addNode(addNode(GraphOfCapacity(MinCapacity + MaxGrowth),
                                 0 - Scale, 0, DefaultNodeSize),
                         Scale, 0, DefaultNodeSize),
                 k) : k \in { MinCapacity - 3, MinCapacity - 2 } }

InitCapacity ==
    /\ graph \in FullGraphs
    /\ layouts = << >>
    /\ layout = 0
    /\ gpuLayout = << >>
    /\ gpuPass = NoPass
    /\ renderer = NewRenderer(TRUE)
    /\ clock = 0
    /\ calls = 0
    /\ controls = NewControls
    /\ hist = NoHist(0)

NextCapacity ==
    \/ StartGPULayout
    \/ StopGPULayout
    \/ AppPut
    \/ GpuFrame
    \/ GpuReadback

SpecCapacity == InitCapacity /\ [][NextCapacity]_vars

\* ------------------------------------------------------------------------
\* The device at work: the lanes of a GPU layout's dispatches, interleaved
\* ------------------------------------------------------------------------
\* dispatches run lane by lane in a run of this specification
MaxDispatches == 2

\* three nodes; the edges 0 -> 1 and 0 -> 2 share their source, 0 -> 1 and
\* 1 -> 2 share node 1 as target and source, 0 -> 1 and 0 -> 1 share both
\* ends; node 2 is shown or hidden
LaneGraphs ==
    { addEdge(addEdge(addNode(addNode(addNode(NewGraph, 0 - Scale, 0, DefaultNodeSize),
                                      Scale, 0, DefaultNodeSize),
                              0, Scale \div 2, size),
                      0, 1),
              e[1], e[2]) :
        e \in { <<0, 2>>, <<1, 2>>, <<0, 1>> }, size \in SizeVals }

\* a GPUForceLayout inside start(), its data uploaded, before the first dispatch
InitLanes ==
    /\ graph \in LaneGraphs
    /\ layouts = << >>
    /\ layout = 0
    /\ \E opts \in OptsVals :
           gpuLayout = << uploadParams(
                              uploadData([NewGPUForceLayout(graph, GpuConfig(opts, 1))
                                             EXCEPT !.running = TRUE], graph),
                              graph) >>
    /\ gpuPass = NoPass
    /\ renderer = NewRenderer(TRUE)
    /\ clock = 0
    /\ calls = 0
    /\ controls = NewControls
    /\ hist = NoHist(0)

\* the count that sizes the workgroups of pass `name`
GroupCount(name) == IF name = "attraction" THEN numEdges(graph) ELSE numNodes(graph)

\* dispatchStep() is submitted: the first pass begins
BeginDispatch ==
    /\ gpuPass.name = "none"
    /\ clock < MaxDispatches
    /\ gpuPass' = BeginPass(gpuLayout[1], "reset", GroupCount("reset"))
    /\ hist' = Did("dispatch", 0, FALSE, hist.frames)
    /\ UNCHANGED <<graph, layouts, layout, gpuLayout, renderer, clock, calls, controls>>

\* a lane of the pass in flight makes its next access
Lane ==
    \E x \in DOMAIN gpuPass.pc :
        /\ gpuPass.name # "none"
        /\ gpuPass.pc[x] < LaneEnd(gpuPass.name)
        /\ \E r \in { LaneStep(gpuLayout[1], gpuPass, x) } :
               /\ gpuLayout' = << r.d >>
               /\ gpuPass' = r.p
        /\ hist' = Did("lane", 0, FALSE, hist.frames)
        /\ UNCHANGED <<graph, layouts, layout, renderer, clock, calls, controls>>

\* the pass in flight has ended: the next one begins, or the dispatch is over
EndPass ==
    /\ gpuPass.name # "none"
    /\ PassDone(gpuPass)
    /\ IF PassAfter(gpuPass) = "none"
       THEN /\ gpuPass' = NoPass
            /\ gpuLayout' = << [gpuLayout[1] EXCEPT !.iteration = @ + 1] >>
            /\ clock' = clock + 1
       ELSE /\ gpuPass' = BeginPass(gpuLayout[1], PassAfter(gpuPass),
                                    GroupCount(PassAfter(gpuPass)))
            /\ UNCHANGED <<gpuLayout, clock, controls>>
    /\ hist' = Did("endPass", 0, FALSE, hist.frames)
    /\ UNCHANGED <<graph, layouts, layout, renderer, calls, controls>>

NextLanes == BeginDispatch \/ Lane \/ EndPass

SpecLanes == InitLanes /\ [][NextLanes]_vars


\* ------------------------------------------------------------------------
\* QuadTree.build and computeForce on graphs of up to MaxNodes nodes
\* ------------------------------------------------------------------------
\* where the nodes are put: apart, next to each other, on the same point and
\* at a coordinate of Infinity, which a Float32Array holds as well
TreePosVals == { <<0, 0>>, <<1, 0>>, <<Scale, 0>>, <<0 - Scale, Scale>>, <<PInf, 0>> }
\* the gravitational constants and the Barnes-Hut parameters tried
TreeGVals == { 0 - 250, 0, 250, PInf }
ThetaVals == { 0, Scale \div 2, 2 * Scale }

InitTree ==
    /\ graph = NewGraph
    /\ layouts = << >>
    /\ layout = 0
    /\ gpuLayout = << >>
    /\ gpuPass = NoPass
    /\ renderer = NewRenderer(FALSE)
    /\ clock = 0
    /\ calls = 0
    /\ controls = NewControls
    /\ hist = NoHist(0)

\* a caller adds a node
TreePut ==
    \E p \in TreePosVals, size \in SizeVals :
        /\ graph.nodeCount < Length(graph.sizes)
        /\ graph' = addNode(graph, p[1], p[2], size)
        /\ hist' = Did("addNode", 0, FALSE, hist.frames)
        /\ UNCHANGED <<gpuLayout, gpuPass, renderer, layouts, layout, clock, calls, controls>>

\* a caller moves a node
TreeMove ==
    \E id \in 0..(graph.nodeCount - 1), p \in TreePosVals :
        /\ graph' = setNodePosition(graph, id, p[1], p[2])
        /\ hist' = Did("setNodePosition", 0, FALSE, hist.frames)
        /\ UNCHANGED <<gpuLayout, gpuPass, renderer, layouts, layout, clock, calls, controls>>

NextTree == TreePut \/ TreeMove

SpecTree == InitTree /\ [][NextTree]_vars

\* ------------------------------------------------------------------------
\* The graph under the facade's put, link, unput, unlink and clear
\* ------------------------------------------------------------------------
\* the capacities of the graph: maxNodes and maxEdges
GraphMaxNodes == 3
GraphMaxEdges == 2

InitGraph ==
    /\ graph = GraphOf(GraphMaxNodes, GraphMaxEdges)
    /\ layouts = << >>
    /\ layout = 0
    /\ gpuLayout = << >>
    /\ gpuPass = NoPass
    /\ renderer = NewRenderer(FALSE)
    /\ clock = 0
    /\ calls = 0
    /\ controls = NewControls
    /\ hist = NoHist(0)

\* the operation op(id) was called on the graph
GraphDid(op, id) == [Did(op, 0, FALSE, hist.frames) EXCEPT !.n = id]

\* put(tag): Graph.addNode
GraphPut ==
    /\ graph.nodeCount < Length(graph.sizes) \/ Len(graph.freeNodes) > 0
    /\ graph' = addNode(graph, 0, 0, DefaultNodeSize)
    /\ hist' = GraphDid("put", addNodeId(graph))
    /\ UNCHANGED <<gpuLayout, gpuPass, renderer, layouts, layout, clock, calls, controls>>

\* link(source, tag, target) of two nodes of the graph: Graph.addEdge
Link ==
    \E source \in DOMAIN graph.sizes, target \in DOMAIN graph.sizes :
        /\ source < graph.nodeCount /\ graph.nodeTags[source]
        /\ target < graph.nodeCount /\ graph.nodeTags[target]
        /\ graph.edgeCount < Length(graph.edgeTags) \/ Len(graph.freeEdges) > 0
        /\ graph' = addEdge(graph, source, target)
        /\ hist' = GraphDid("link", addEdgeId(graph))
        /\ UNCHANGED <<gpuLayout, gpuPass, renderer, layouts, layout, clock, calls, controls>>

\* unput(id): Graph.removeNode
Unput ==
    \E id \in DOMAIN graph.sizes :
        /\ graph' = removeNode(graph, id)
        /\ hist' = GraphDid("unput", id)
        /\ UNCHANGED <<gpuLayout, gpuPass, renderer, layouts, layout, clock, calls, controls>>

\* unlink(edgeId): Graph.removeEdge
Unlink ==
    \E id \in DOMAIN graph.edgeTags :
        /\ graph' = removeEdge(graph, id)
        /\ hist' = GraphDid("unlink", id)
        /\ UNCHANGED <<gpuLayout, gpuPass, renderer, layouts, layout, clock, calls, controls>>

\* clear(): Graph.clear
Clear ==
    /\ graph' = clear(graph)
    /\ hist' = GraphDid("clear", 0)
    /\ UNCHANGED <<gpuLayout, gpuPass, renderer, layouts, layout, clock, calls, controls>>

NextGraph == GraphPut \/ Link \/ Unput \/ Unlink \/ Clear

SpecGraph == InitGraph /\ [][NextGraph]_vars

\* ------------------------------------------------------------------------
\* A ForceLayout on a graph whose nodes are removed and added again
\* ------------------------------------------------------------------------
\* the layout has run one tick: the nodes have velocities
InitReuse ==
    /\ \E g \in InitGraphs, opts \in OptsVals, rnd \in RandomVals :
          \E r \in { step(NewForceLayout(g, opts), g, 1, rnd) } :
              /\ graph = r.g
              /\ layouts = << r.l >>
              /\ clock = Len(r.trace)
    /\ layout = 1
    /\ gpuLayout = << >>
    /\ gpuPass = NoPass
    /\ renderer = NewRenderer(FALSE)
    /\ calls = 0
    /\ controls = NewControls
    /\ hist = NoHist(1)

\* a caller removes a node: Graph.removeNode
RemoveNode ==
    \E id \in 0..(graph.nodeCount - 1) :
        /\ graph' = removeNode(graph, id)
        /\ hist' = GraphDid("removeNode", id)
        /\ Called /\ UNCHANGED <<gpuLayout, gpuPass, renderer, layouts, layout, clock, controls>>

NextReuse ==
    \/ RemoveNode
    \/ AddNode
    \/ Pin(1)
    \/ Unpin(1)
    \/ Reset(1)
    \/ Step(1)

SpecReuse == InitReuse /\ [][NextReuse]_vars

\* ------------------------------------------------------------------------
\* One GPUForceLayout under start(), stop(), frame callbacks and readbacks
\* ------------------------------------------------------------------------
InitGpu ==
    /\ graph \in InitGraphs
    /\ \E opts \in OptsVals, stepsPerFrame \in StepsPerFrameVals :
           gpuLayout = << NewGPUForceLayout(graph, GpuConfig(opts, stepsPerFrame)) >>
    /\ layouts = << >>
    /\ layout = 0
    /\ gpuPass = NoPass
    /\ renderer = NewRenderer(TRUE)
    /\ clock = 0
    /\ calls = 0
    /\ controls = NewControls
    /\ hist = NoHist(0)

\* a caller calls start() of the GPU layout: up to the await of the readback
GpuStart ==
    /\ Called
    /\ ~gpuLayout[1].running => clock + gpuLayout[1].config.stepsPerFrame <= MaxTicks
    /\ \E d \in gpuStart(gpuLayout[1], graph) : gpuLayout' = << d >>
    /\ clock' = clock + (IF gpuLayout[1].running THEN 0
                         ELSE gpuLayout[1].config.stepsPerFrame)
    /\ hist' = Did("start", 0, FALSE, hist.frames)
    /\ UNCHANGED <<graph, layouts, layout, gpuPass, renderer, controls>>

\* a caller calls stop() of the GPU layout
GpuStop ==
    /\ Called
    /\ gpuLayout' = << gpuStop(gpuLayout[1]) >>
    /\ hist' = Did("stop", 0, FALSE, hist.frames)
    /\ UNCHANGED <<graph, layouts, layout, clock, gpuPass, renderer, controls>>

\* the rejection of a mapAsync reaches the loop closure that awaits it: the
\* closure ends there, an unhandled rejection
GpuRejected ==
    /\ gpuLayout[1].rejected > 0
    /\ gpuLayout' = << [gpuLayout[1] EXCEPT !.rejected = @ - 1] >>
    /\ hist' = Did("rejected", 0, FALSE, hist.frames)
    /\ UNCHANGED <<graph, layouts, layout, clock, calls, gpuPass, renderer, controls>>

NextGpu ==
    \/ GpuStart
    \/ GpuStop
    \/ GpuFrame
    \/ GpuReadback
    \/ GpuRejected

SpecGpu == InitGpu /\ [][NextGpu]_vars

\* ------------------------------------------------------------------------
\* GraphGPU with its InteractionController: drags by mouse and by touch
\* ------------------------------------------------------------------------
\* the fingers that can be on the canvas
MaxTouches == 2

InitDrag ==
    /\ graph \in InitGraphs
    /\ layouts = << >>
    /\ layout = 0
    /\ gpuLayout = << >>
    /\ gpuPass = NoPass
    /\ renderer = NewRenderer(FALSE)
    /\ clock = 0
    /\ calls = 0
    /\ controls = NewControls
    /\ hist = NoHist(0)

\* what hitTest can return: null, or a node that is drawn
HitNodes == { NoNode } \cup { i \in 0..(graph.nodeCount - 1) :
                                 isNodeActive(graph, i) /\ ~Le(graph.sizes[i], 0) }

\* r = [c, ls] is what a handler of the controller did
Handled(op, r) ==
    /\ controls' = r.c
    /\ layouts' = r.ls
    /\ hist' = Did(op, 0, FALSE, hist.frames)
    /\ UNCHANGED <<graph, layout, gpuLayout, gpuPass, renderer, clock, calls>>

\* mousedown on the canvas
MouseDown ==
    \E hitNode \in HitNodes :
        Handled("mouseDown", onMouseDown(controls, layouts, hitNode))

\* mouseup on the canvas
MouseUp == \E r \in { onMouseUp(controls, layouts) } : Handled("mouseUp", r)

\* touchstart: one more finger on the canvas
TouchStart ==
    /\ controls.touches < MaxTouches
    /\ \E hitNode \in HitNodes :
           Handled("touchStart",
                   onTouchStart(controls, layouts, controls.touches + 1, hitNode))

\* touchend or touchcancel: some of the fingers are gone
TouchEnd ==
    \E touches \in 0..(controls.touches - 1) :
        Handled("touchEnd", onTouchEnd(controls, layouts, touches))

NextDrag ==
    \/ AppSetAnimated
    \/ StartLayout
    \/ MouseDown
    \/ MouseUp
    \/ TouchStart
    \/ TouchEnd

SpecDrag == InitDrag /\ [][NextDrag]_vars

\* ------------------------------------------------------------------------
\* Properties of ForceLayout (Spec)
\* ------------------------------------------------------------------------
\* every position of a node of the graph is a finite number
FinitePositions(g) == \A k \in 0..(2 * g.nodeCount - 1) : IsFinite(g.positions[k])

\* the position of node id in graph g
PositionOf(g, id) == <<g.positions[id * 2], g.positions[id * 2 + 1]>>

\* C1: while a node is pinned on a layout, no tick of that layout (run by
\* step() or by the scheduled loop) changes its position, whatever force acts
\* on it; its position changes only when an external caller sets it.
C1_PinnedNodesStay ==
    [][ \A L \in Layouts : \A id \in layouts[L].pinned :
          /\ (hist'.op \in {"step", "loop"} /\ hist'.L = L)
                 => PositionOf(graph', id) = PositionOf(graph, id)
          /\ PositionOf(graph', id) # PositionOf(graph, id)
                 => hist'.op = "setNodePosition" ]_vars

\* a step() ran ticks while an active pinned node had a force on it
C1_Witness ==
    /\ hist.op = "step"
    /\ Len(hist.trace) > 0
    /\ \E id \in layouts[hist.L].pinned :
          /\ graph.sizes[id] > 0
          /\ IsFinite(Get(layouts[hist.L].forces, id * 2))
          /\ Get(layouts[hist.L].forces, id * 2) # 0

\* C2: at any time at most one loop callback of a ForceLayout is scheduled,
\* after any sequence of start(), stop() and setAnimated() calls and frames.
C2_OneLoopChain == \A L \in Layouts : layouts[L].scheduled <= 1

\* C3: stop() only clears the running flag; running is set again only by
\* start() or setAnimated(true); a loop callback that finds the flag cleared
\* runs no tick, writes nothing and schedules nothing; a callback that finds
\* it set runs its whole batch.
C3_StopIsCooperative ==
    [][ \A L \in Layouts :
          /\ (hist'.op = "stop" /\ hist'.L = L)
                 => /\ layouts'[L] = [layouts[L] EXCEPT !.running = FALSE]
                    /\ graph' = graph
          /\ (~layouts[L].running /\ layouts'[L].running)
                 => hist'.op \in {"start", "setAnimated(true)"} /\ hist'.L = L
          /\ (hist'.op = "loop" /\ hist'.L = L /\ ~layouts[L].running)
                 => /\ hist'.trace = << >>
                    /\ graph' = graph
                    /\ layouts'[L] = [layouts[L] EXCEPT !.scheduled = @ - 1]
          /\ (hist'.op = "loop" /\ hist'.L = L /\ layouts[L].running)
                 => Len(hist'.trace) = TicksPerFrame ]_vars

\* after a batch had run and the layout was stopped, its last pending callback
\* ran and did nothing
C3_Witness ==
    /\ hist.op = "loop"
    /\ hist.trace = << >>
    /\ ~layouts[hist.L].running
    /\ layouts[hist.L].scheduled = 0
    /\ layouts[hist.L].iteration >= TicksPerFrame

\* C4: a loop callback of a running layout in animated mode runs its batch,
\* leaves the layout running, calls no onStop and schedules itself again,
\* whatever the max velocity and the iteration count; in animated mode running
\* is cleared only by a stop() call.
C4_AnimatedNeverStops ==
    [][ \A L \in Layouts :
          /\ (hist'.op = "loop" /\ hist'.L = L /\ layouts[L].running /\ layouts[L].animated)
                 => /\ layouts'[L].running
                    /\ ~hist'.onStop
                    /\ layouts'[L].scheduled = layouts[L].scheduled
          /\ (layouts[L].animated /\ layouts[L].running /\ ~layouts'[L].running)
                 => hist'.op = "stop" /\ hist'.L = L ]_vars

\* an animated loop went on although the batch ended below minVelocity with
\* the iteration cap reached
C4_Witness ==
    /\ hist.op = "loop"
    /\ Len(hist.trace) = TicksPerFrame
    /\ layouts[hist.L].animated
    /\ layouts[hist.L].running
    /\ layouts[hist.L].scheduled > 0
    /\ Lt(hist.ret, layouts[hist.L].config.minVelocity)
    /\ layouts[hist.L].iteration >= layouts[hist.L].config.maxIterations

\* C6: step(n) runs at most n ticks and returns the max velocity of the last
\* one (0 when it ran none, as for n = 0); in animated mode it runs exactly n;
\* otherwise it stops after the first tick whose max velocity is below
\* minVelocity; the iteration counter grows by the number of ticks run; the
\* running flag, the pending callbacks and maxIterations play no part.
C6_StepContract ==
    [][ \A L \in Layouts :
          (hist'.op = "step" /\ hist'.L = L) =>
              /\ Len(hist'.trace) <= hist'.n
              /\ hist'.ret = IF hist'.trace = << >> THEN 0
                             ELSE hist'.trace[Len(hist'.trace)]
              /\ layouts[L].animated => Len(hist'.trace) = hist'.n
              /\ ~layouts[L].animated =>
                     /\ \A k \in 1..(Len(hist'.trace) - 1) :
                            ~Lt(hist'.trace[k], layouts[L].config.minVelocity)
                     /\ Len(hist'.trace) < hist'.n =>
                            Lt(hist'.ret, layouts[L].config.minVelocity)
              /\ layouts'[L].iteration = layouts[L].iteration + Len(hist'.trace)
              /\ layouts'[L].running = layouts[L].running
              /\ layouts'[L].scheduled = layouts[L].scheduled
              /\ layouts'[L].animated = layouts[L].animated ]_vars

\* a step(2) of a running bounded layout past its iteration cap stopped after
\* its first tick, which was below minVelocity
C6_Witness ==
    /\ hist.op = "step"
    /\ hist.n = 2
    /\ Len(hist.trace) = 1
    /\ ~layouts[hist.L].animated
    /\ layouts[hist.L].running
    /\ layouts[hist.L].iteration > layouts[hist.L].config.maxIterations

\* C7: after a step() call every node position is a finite number.
C7_StepKeepsPositionsFinite == hist.op = "step" => FinitePositions(graph)

\* C8: every tick of the last operation worked on velocity and force arrays of
\* at least 2 * numNodes entries.
C8_TickArraysCoverNodes == hist.covered

\* C10: setAnimated(true) leaves the layout running and animated; it schedules
\* one loop callback when the layout was not running and none when it was; the
\* iteration counter, the buffers' contents and the graph are as before.
C10_SetAnimatedTrue ==
    [][ \A L \in Layouts :
          (hist'.op = "setAnimated(true)" /\ hist'.L = L) =>
              /\ layouts'[L].running
              /\ layouts'[L].animated
              /\ layouts'[L].scheduled =
                     layouts[L].scheduled + (IF layouts[L].running THEN 0 ELSE 1)
              /\ layouts'[L].iteration = layouts[L].iteration
              /\ graph' = graph ]_vars

\* setAnimated(true) started a layout whose iteration counter was not 0
C10_Witness ==
    /\ hist.op = "setAnimated(true)"
    /\ layouts[hist.L].running
    /\ layouts[hist.L].animated
    /\ layouts[hist.L].scheduled = 1
    /\ layouts[hist.L].iteration > 0

\* C11: after setAnimated(false) on a layout that was running in animated mode,
\* the run goes on: no frame of that run clears running or calls onStop, be the
\* batch below minVelocity or the iteration cap reached.
C11_SwitchOutKeepsRun ==
    [][ \A L \in Layouts :
          (hist'.op = "loop" /\ hist'.L = L /\ layouts[L].running /\ L \in hist.demoted)
              => layouts'[L].running /\ ~hist'.onStop ]_vars

\* the velocity component v lies in [-maxV, maxV]
WithinMaxVelocity(v, maxV) == Ge(v, Neg[maxV]) /\ Le(v, maxV)

\* C18: every velocity component a ForceLayout holds lies in
\* [-maxVelocity, maxVelocity], in every state reachable from its construction.
C18_VelocitiesClamped ==
    \A L \in Layouts : \A k \in DOMAIN layouts[L].velocities :
        WithinMaxVelocity(layouts[L].velocities[k], layouts[L].config.maxVelocity)

RECURSIVE SumOf(_, _)
\* the sum of the entries k, k + 2, k + 4, ... of the array a
SumOf(a, k) == IF k >= Length(a) THEN 0 ELSE Add[a[k], SumOf(a, k + 2)]

\* every entry of the array a is a finite number
FiniteArray(a) == \A i \in DOMAIN a : IsFinite(a[i])

\* C19: at brute force, after the repulsion and the spring pass of a tick the
\* forces the tick holds add up to zero in x and in y (every contribution was
\* added to one node and subtracted from another), as far as they are finite.
C19_ForcesCancel ==
    \A L \in Layouts : \A rnd \in RandomVals :
        LET f == PairwiseForces(graph, layouts[L].config, layouts[L].forces, rnd)
        IN  (layouts[L].config.barnesHutTheta = 0 /\ FiniteArray(f))
                => SumOf(f, 0) = 0 /\ SumOf(f, 1) = 0

\* the arrays a and b agree on the entries of the n nodes
SameEntries(a, b, n) == \A i \in 0..(2 * n - 1) : Get(a, i) = Get(b, i)

\* C20: a step(1) that follows reset() leaves, for every node, the velocities
\* and forces that the first step(1) of a new ForceLayout with the same
\* options leaves on the same graph (no node being pinned).
C20_ResetThenStep ==
    [][ \A L \in Layouts :
          ( /\ hist.op = "reset" /\ hist.L = L
            /\ hist'.op = "step" /\ hist'.L = L /\ hist'.n = 1
            /\ layouts[L].pinned = {} )
          => \E rnd \in RandomVals :
                LET fresh == step(NewForceLayout(graph, layouts[L].config), graph, 1, rnd).l
                IN  /\ SameEntries(layouts'[L].velocities, fresh.velocities, numNodes(graph))
                    /\ SameEntries(layouts'[L].forces, fresh.forces, numNodes(graph)) ]_vars

\* what node i gets of the spring f of an edge src -> tgt
SpringTermOf(i, src, tgt, f) ==
    VSub(IF src = i THEN f ELSE <<0, 0>>, IF tgt = i THEN f ELSE <<0, 0>>)
\* node i of graph g takes part in the physics (`sizes[i] <= 0` is false)
ActiveNode(g, i) == ~Le(g.sizes[i], 0)
\* edge e of graph g is active and joins two active nodes
LiveEdge(g, e) ==
    /\ isEdgeActive(g, e)
    /\ ActiveNode(g, g.edgeIndices[e * 2]) /\ ActiveNode(g, g.edgeIndices[e * 2 + 1])

\* where the inactive nodes are put to see that their position plays no part
HidePosVals == { <<5 * Scale, 5 * Scale>>, <<0 - Scale, 0>> }

\* The graph g without what is inactive: the inactive nodes at the end of the
\* id range dropped, the other inactive nodes moved to q, and only the live
\* edges kept.
WithoutInactive(g, q) ==
    LET live == { i \in 0..(g.nodeCount - 1) : ActiveNode(g, i) }
    IN  [g EXCEPT
          !.nodeCount = IF live = {} THEN 0
                        ELSE 1 + CHOOSE i \in live : \A j \in live : j <= i,
          !.positions = [k \in DOMAIN g.positions |->
                           IF k < 2 * g.nodeCount /\ (k \div 2) \notin live
                           THEN q[(k % 2) + 1] ELSE g.positions[k]],
          !.edgeTags = [e \in DOMAIN g.edgeTags |-> LiveEdge(g, e)]]

\* C17: a tick writes neither the position nor the velocity of a node of size
\* <= 0, and the forces a tick computes for the active nodes are the forces it
\* computes on the graph without the inactive nodes and without the edges
\* that are inactive or touch one (brute force and Barnes-Hut).
C17_InactiveNodesExcluded ==
    /\ [][ \A L \in Layouts :
             (hist'.op \in {"step", "loop"} /\ hist'.L = L) =>
                 \A id \in 0..(graph.nodeCount - 1) :
                     ~ActiveNode(graph, id) =>
                         /\ PositionOf(graph', id) = PositionOf(graph, id)
                         /\ \A k \in {id * 2, id * 2 + 1} \cap DOMAIN layouts'[L].velocities :
                                layouts'[L].velocities[k] =
                                    (IF k \in DOMAIN layouts[L].velocities
                                     THEN layouts[L].velocities[k] ELSE 0) ]_vars
    /\ [](\A L \in Layouts : \A rnd \in RandomVals, q \in HidePosVals :
            LET f == TickForces(graph, layouts[L].config, layouts[L].forces, rnd)
                h == TickForces(WithoutInactive(graph, q), layouts[L].config,
                                layouts[L].forces, rnd)
            IN  \A id \in 0..(graph.nodeCount - 1) :
                    ActiveNode(graph, id) =>
                        /\ Get(f, id * 2) = Get(h, id * 2)
                        /\ Get(f, id * 2 + 1) = Get(h, id * 2 + 1))

\* a Barnes-Hut step ran ticks on a graph with an inactive node that an active
\* edge touches, and left a force on an active node
C17_Witness ==
    /\ hist.op = "step"
    /\ Len(hist.trace) > 0
    /\ Gt(layouts[hist.L].config.barnesHutTheta, 0)
    /\ \E e \in 0..(graph.edgeCount - 1) : isEdgeActive(graph, e) /\ ~LiveEdge(graph, e)
    /\ \E id \in 0..(graph.nodeCount - 1) :
          ActiveNode(graph, id) /\ Get(layouts[hist.L].forces, id * 2) # 0

\* ------------------------------------------------------------------------
\* Properties of the pinned set (Spec)
\* ------------------------------------------------------------------------
\* C27: every node in the pinned set of a layout has the velocity (0, 0).
C27_PinnedNodesAtRest ==
    \A L \in Layouts : \A id \in layouts[L].pinned :
        /\ Get(layouts[L].velocities, id * 2) = 0
        /\ Get(layouts[L].velocities, id * 2 + 1) = 0

\* ------------------------------------------------------------------------
\* Properties of the two-node spring scenario (Spec)
\* ------------------------------------------------------------------------
\* the two-node scenario: layout L has springs only (rest length 0.2, constant
\* 0.06, damping 0.18, timestep 0.35), no node pinned and every velocity zero;
\* the graph has the active nodes 0 at (-1, 0) and 1 at (1, 0) and one active
\* edge, which joins them
TwoNodeScenario(L) ==
    /\ layouts[L].config.gravitationalConstant = 0
    /\ layouts[L].config.centralGravity = 0
    /\ layouts[L].config.springLength = Scale \div 5
    /\ layouts[L].config.springConstant = (6 * Scale) \div 100
    /\ layouts[L].config.damping = (18 * Scale) \div 100
    /\ layouts[L].config.timestep = (35 * Scale) \div 100
    /\ layouts[L].pinned = {}
    /\ \A k \in DOMAIN layouts[L].velocities : layouts[L].velocities[k] = 0
    /\ numNodes(graph) = 2 /\ ActiveNode(graph, 0) /\ ActiveNode(graph, 1)
    /\ PositionOf(graph, 0) = <<0 - Scale, 0>>
    /\ PositionOf(graph, 1) = <<Scale, 0>>
    /\ numEdges(graph) = 1 /\ isEdgeActive(graph, 0)
    /\ {graph.edgeIndices[0], graph.edgeIndices[1]} = {0, 1}

\* C22: in the two-node scenario one tick (a step(1)) moves the left node
\* to the right and the right node to the left by the same amount, so that
\* |x_a| = |x_b| afterwards, and leaves both y at 0.
C22_SpringsPullTogether ==
    [][ \A L \in Layouts :
          (TwoNodeScenario(L) /\ hist'.op = "step" /\ hist'.L = L /\ hist'.n = 1) =>
              /\ Len(hist'.trace) = 1
              /\ Gt(graph'.positions[0], graph.positions[0])
              /\ Lt(graph'.positions[2], graph.positions[2])
              /\ Sub[graph'.positions[0], graph.positions[0]]
                     = Sub[graph.positions[2], graph'.positions[2]]
              /\ MathAbs[graph'.positions[0]] = MathAbs[graph'.positions[2]]
              /\ graph'.positions[1] = 0 /\ graph'.positions[3] = 0 ]_vars

\* the first call on the scenario was a step(1), and it has moved both nodes
\* inward: to (-1 + d, 0) and (1 - d, 0)
C22_Witness ==
    /\ calls = 1 /\ hist.op = "step" /\ hist.n = 1
    /\ layouts[1].config.gravitationalConstant = 0
    /\ isEdgeActive(graph, 0)
    /\ Gt(graph.positions[0], 0 - Scale) /\ Lt(graph.positions[0], 0)
    /\ graph.positions[2] = Neg[graph.positions[0]]
    /\ graph.positions[1] = 0 /\ graph.positions[3] = 0

\* ------------------------------------------------------------------------
\* Properties of the facade without a compute device (SpecApp)
\* ------------------------------------------------------------------------
\* C13: startGPULayout() with no compute-capable device constructs no
\* GPUForceLayout, stops any running layout and starts a CPU ForceLayout
\* instead: when the call completes this.layout is running and is the only
\* layout that is.
C13_FallbackToCpu ==
    [][hist'.op = "startGPULayout" /\ ~renderer.device =>
            /\ gpuLayout' = << >>
            /\ layout' \in 1..Len(layouts')
            /\ layouts'[layout'].running
            /\ \A L \in 1..Len(layouts') : layouts'[L].running => L = layout']_vars

\* ------------------------------------------------------------------------
\* Properties of the facade with its renderer (SpecRender)
\* ------------------------------------------------------------------------
\* the renderer's copy of the node positions is the graph's
NodesUploaded ==
    \A k \in 0..(numNodes(graph) * 2 - 1) :
        k \in DOMAIN renderer.gpuPositions /\ renderer.gpuPositions[k] = graph.positions[k]
\* the renderer's edge vertices are those of the graph's positions
EdgesUploaded == renderer.edgeVertexData = EdgeVertices(graph)
\* the step is a CPU call that ran a tick, or a GPU readback
BackendWrote ==
    \/ hist'.op = "stepLayout" /\ Len(hist'.trace) > 0
    \/ hist'.op = "readback"

RECURSIVE RefRepulsion(_, _, _, _, _, _)
\* The force the positions of g put on node i, taken node by node.
\* the repulsion of the nodes j, j + 1, ... on node i, added to acc
RefRepulsion(i, j, g, G, rnd, acc) ==
    IF j >= numNodes(g) THEN acc
    ELSE IF j = i \/ Le(g.sizes[j], 0) THEN RefRepulsion(i, j + 1, g, G, rnd, acc)
    ELSE RefRepulsion(i, j + 1, g, G, rnd,
             IF i < j THEN VSub(acc, PairForce[PairDelta(i, j, g.positions, rnd), G])
             ELSE VAdd(acc, PairForce[PairDelta(j, i, g.positions, rnd), G]))
\* the spring of edge e as node i feels it
RefSpring(i, e, g, cfg) ==
    SpringTermOf(i, g.edgeIndices[e * 2], g.edgeIndices[e * 2 + 1],
                 SpringForce[Sub[g.positions[g.edgeIndices[e * 2] * 2],
                                 g.positions[g.edgeIndices[e * 2 + 1] * 2]],
                             Sub[g.positions[g.edgeIndices[e * 2] * 2 + 1],
                                 g.positions[g.edgeIndices[e * 2 + 1] * 2 + 1]],
                             cfg.springConstant, cfg.springLength])
RECURSIVE RefSprings(_, _, _, _, _)
\* the springs of the edges e, e + 1, ... on node i, added to acc
RefSprings(i, e, g, cfg, acc) ==
    IF e >= numEdges(g) THEN acc
    ELSE IF ~LiveEdge(g, e) THEN RefSprings(i, e + 1, g, cfg, acc)
    ELSE RefSprings(i, e + 1, g, cfg, VAdd(acc, RefSpring(i, e, g, cfg)))
RefGravity(i, g, cfg) ==
    IF cfg.centralGravity = 0 THEN <<0, 0>>
    ELSE GravityForce[Neg[g.positions[i * 2]], Neg[g.positions[i * 2 + 1]],
                      cfg.centralGravity]
\* brute-force repulsion, springs and gravity on node i
RefForce(i, g, cfg, rnd) ==
    VAdd(VAdd(IF cfg.gravitationalConstant = 0 THEN <<0, 0>>
              ELSE RefRepulsion(i, 0, g, cfg.gravitationalConstant, rnd, <<0, 0>>),
              RefSprings(i, 0, g, cfg, <<0, 0>>)),
         RefGravity(i, g, cfg))
\* component k of the force a tick of layout l reads: outside the array the
\* tick holds the read is NaN
RefRead(l, g, rnd, k) ==
    IF k \in DOMAIN l.forces THEN RefForce(k \div 2, g, l.config, rnd)[(k % 2) + 1] ELSE NaN
\* where component k is after a tick on the force f, from position p and velocity v
RefMove(p, v, f, cfg) ==
    Add[p, Mul[NewVel[f, v, cfg.damping, cfg.timestep, cfg.maxVelocity], cfg.timestep]]

\* One CPU tick of layout l on graph g gave graph g2 and layout l2: the forces
\* are those of g's positions alone, and every node moved by the velocity
\* they give it
CpuTickPhased(l, g, l2, g2) ==
    \E rnd \in RandomVals :
        /\ \A k \in 0..(numNodes(g) * 2 - 1) :
               g2.positions[k] =
                   IF ActiveNode(g, k \div 2) /\ (k \div 2) \notin l.pinned
                   THEN RefMove(g.positions[k], Get(l.velocities, k),
                                RefRead(l, g, rnd, k), l.config)
                   ELSE g.positions[k]
        /\ Length(l.forces) >= numNodes(g) * 2 =>
               \A k \in 0..(numNodes(g) * 2 - 1) :
                   ActiveNode(g, k \div 2) => l2.forces[k] = RefRead(l, g, rnd, k)

\* the writes of the attraction pass to the slot of node i
WritesTo(d, i) ==
    { w \in SpringWrites(d, LaneCount(d.params.edgeCount)) : EdgeEnd(d, w[1], w[2]) = i }
\* One dispatchStep took the device buffers from d to d2: the force of a node
\* is zero plus its repulsion, the spring terms that survived the races and
\* its gravity, all of d's positions, and the node moved by the velocity it gives
GpuTickPhased(d, d2) ==
    \A i \in 0..(d.params.nodeCount - 1) :
        IF ~SizedLane(d, i)
        THEN Vec2(d2.positions, i) = Vec2(d.positions, i)
        ELSE \E kept \in SUBSET WritesTo(d, i) :
               /\ WritesTo(d, i) # {} => kept # {}
               /\ \A c \in {1, 2} :
                     /\ d2.forces[2 * i + c - 1] =
                            Add[Add[GpuRepulsionSum(d, i, GpuOthers(d, i), 1, <<0, 0>>)[c],
                                    SpringSum(d, kept, i, c, 0, 0)],
                                GpuGravity[Neg[GpuRead(d.positions, 2 * i)],
                                           Neg[GpuRead(d.positions, 2 * i + 1)],
                                           d.config.centralGravity][c]]
                     /\ d2.positions[2 * i + c - 1] =
                            RefMove(GpuRead(d.positions, 2 * i + c - 1),
                                    GpuRead(d.velocities, 2 * i + c - 1),
                                    d2.forces[2 * i + c - 1], d.config)

\* C14: on both backends every tick is phased: the forces are zeroed, then
\* repulsion, springs and gravity are accumulated, and only then are the
\* velocities and positions integrated, so the force that moves a node is
\* that of the positions at the start of the tick, not of a position already
\* moved in the tick nor of an earlier tick. Stated for the steps that run one
\* tick: a stepLayout call, and a frame of a GPU loop with stepsPerFrame = 1.
C14_TicksArePhased ==
    [][/\ hist'.op = "stepLayout" /\ Len(hist'.trace) = 1 =>
              CpuTickPhased(Ensured[EnsuredLayout], graph, layouts'[layout'], graph')
       /\ hist'.op = "gpuFrame" /\ gpuLayout[1].running
            /\ gpuLayout[1].config.stepsPerFrame = 1 =>
              GpuTickPhased(gpuLayout[1], gpuLayout'[1])]_vars
\* a second tick has run on each backend: the forces of the first are in the
\* arrays it starts from
C14_Witness ==
    /\ hist.op = "gpuFrame"
    /\ gpuLayout # << >> /\ gpuLayout[1].iteration = 2
    /\ \E k \in DOMAIN gpuLayout[1].forces : gpuLayout[1].forces[k] # 0
    /\ \E L \in Layouts : layouts[L].iteration >= 1

\* C12: whenever a backend (a CPU tick or a GPU readback) has written positions
\* since the renderer last cleared the dirty flags, dirtyNodes and dirtyEdges
\* are both true: a step in which a backend writes leaves both flags set, and
\* a cleared flag means the renderer holds the positions the graph has now.
C12_WritesMarkDirty ==
    /\ [][BackendWrote => graph'.dirtyNodes /\ graph'.dirtyEdges]_vars
    /\ [](/\ ~graph.dirtyNodes => NodesUploaded
          /\ ~graph.dirtyEdges => EdgesUploaded)
\* a readback has moved the nodes the renderer had uploaded and both flags are set
C12_Witness ==
    /\ hist.op = "readback"
    /\ Length(renderer.gpuPositions) > 0
    /\ ~NodesUploaded
    /\ Len(renderer.edgeVertexData) > 0
    /\ ~EdgesUploaded
    /\ graph.dirtyNodes /\ graph.dirtyEdges

\* ------------------------------------------------------------------------
\* Properties of a GPU layout on a growing graph (SpecCapacity)
\* ------------------------------------------------------------------------
\* C16: at every dispatch and every readback of a GPU run the device buffers
\* are large enough for the graph (nodeCapacity >= numNodes and edgeCapacity >=
\* numEdges), also when nodes are added while the loop runs: a graph grown
\* past the capacity is reallocated and uploaded again before the next
\* dispatch.
C16_CapacityCoversGraph ==
    [][hist'.op = "gpuFrame" /\ gpuLayout[1].running =>
           /\ gpuLayout'[1].nodeCapacity >= numNodes(graph')
           /\ gpuLayout'[1].edgeCapacity >= numEdges(graph')]_vars

\* ------------------------------------------------------------------------
\* Properties of the lanes of a dispatch (SpecLanes)
\* ------------------------------------------------------------------------
\* the passes whose lanes are indexed by a node
NodePass(p) == p.name \in { "reset", "repulsion", "gravity", "integrate" }
\* the slots of node i are the same in d and d2
SameSlots(d, d2, i) ==
    /\ Vec2(d2.forces, i) = Vec2(d.forces, i)
    /\ Vec2(d2.velocities, i) = Vec2(d.velocities, i)
    /\ Vec2(d2.positions, i) = Vec2(d.positions, i)
\* pass `name` from d with its lanes run one after the other
PassInOrder(d, name, lanes) ==
    IF name = "reset" THEN DispatchReset(d, lanes)
    ELSE IF name = "repulsion" THEN DispatchRepulsion(d, lanes)
    ELSE IF name = "gravity" THEN DispatchGravity(d, lanes)
    ELSE DispatchIntegrate(d, lanes)
\* the attraction pass from d with none of its writes lost
NoWriteLost(d, lanes) == KeepWrites(d, SpringWrites(d, lanes))

\* C15: on the GPU backend the only write-write race is in the spring
\* (attraction) pass, where two edges with a common endpoint both read, change
\* and write that endpoint's force slot, so one contribution can be lost. In
\* the reset, repulsion, gravity and integration passes lane i writes the
\* slots of node i only: an access of lane i leaves every other node's slots
\* alone, no slot has two writers, and the pass ends as it would with the
\* lanes run in order; the attraction pass ends as its start plus the writes
\* that were not overwritten.
C15_OnlySpringsRace ==
    /\ [][hist'.op = "lane" /\ NodePass(gpuPass) =>
             \A x \in DOMAIN gpuPass.pc :
                 gpuPass'.pc[x] # gpuPass.pc[x] =>
                     \A i \in 0..(gpuLayout[1].params.nodeCount - 1) :
                         i # x => SameSlots(gpuLayout[1], gpuLayout'[1], i)]_vars
    /\ [](NodePass(gpuPass) =>
             /\ \A i \in DOMAIN gpuPass.writers : gpuPass.writers[i] \subseteq {i}
             /\ PassDone(gpuPass) =>
                    gpuLayout[1] = PassInOrder(gpuPass.start, gpuPass.name,
                                               LaneCount(numNodes(graph))))
    /\ [](gpuPass.name = "attraction" /\ PassDone(gpuPass) =>
             gpuLayout[1] \in DispatchAttraction(gpuPass.start, LaneCount(numEdges(graph))))
\* an attraction pass has ended with two writers of one slot and a
\* contribution to it lost
C15_Witness ==
    /\ gpuPass.name = "attraction"
    /\ PassDone(gpuPass)
    /\ \E i \in DOMAIN gpuPass.writers :
           /\ Cardinality(gpuPass.writers[i]) = 2
           /\ Vec2(gpuLayout[1].forces, i) #
                  Vec2(NoWriteLost(gpuPass.start, LaneCount(numEdges(graph))).forces, i)

\* ------------------------------------------------------------------------
\* Properties of a bounded run (SpecLoop)
\* ------------------------------------------------------------------------
\* max(1, ceil(m / 3)): the frames a bounded run with iteration cap m may take
FrameBound(m) ==
    IF m <= TicksPerFrame THEN 1 ELSE (m + TicksPerFrame - 1) \div TicksPerFrame

\* C5: a bounded run that start() began and no other call disturbs stops: the
\* frame that ends it is the first whose last tick is below minVelocity or
\* whose iteration count has reached maxIterations, onStop is called in that
\* frame, no run takes more than max(1, ceil(maxIterations / 3)) frames, and
\* under a scheduler that runs every pending callback the run does end.
C5_BoundedLoopStops ==
    /\ [](hist.frames[1] <= FrameBound(layouts[1].config.maxIterations))
    /\ [][ (hist'.op = "loop" /\ layouts[1].running) =>
             /\ layouts'[1].running <=>
                    ~ \/ Lt(hist'.ret, layouts[1].config.minVelocity)
                      \/ layouts'[1].iteration >= layouts[1].config.maxIterations
             /\ hist'.onStop <=> ~layouts'[1].running ]_vars
    /\ layouts[1].running ~> (~layouts[1].running /\ hist.onStop)

\* a run that did not converge was ended by its iteration cap in its second frame
C5_Witness ==
    /\ hist.op = "loop"
    /\ hist.onStop
    /\ ~layouts[1].running
    /\ hist.frames[1] = 2
    /\ hist.frames[1] = FrameBound(layouts[1].config.maxIterations)
    /\ ~Lt(hist.ret, layouts[1].config.minVelocity)

\* ------------------------------------------------------------------------
\* Properties of GraphGPU (SpecApp)
\* ------------------------------------------------------------------------
\* C9: at most one CPU ForceLayout of a GraphGPU instance is running.
C9_OneRunningLayout == Cardinality({ L \in Layouts : layouts[L].running }) <= 1


\* ------------------------------------------------------------------------
\* Properties of the QuadTree (SpecTree)
\* ------------------------------------------------------------------------
\* the active nodes of graph g
ActiveNodes(g) == { i \in 0..(g.nodeCount - 1) : ActiveNode(g, i) }
\* the tree that a tick builds over graph g, and its root
TreeOf(g) == build(g.positions, g.sizes, numNodes(g))
RootOf(tree) == tree.pool[tree.root + 1]

\* C21: the tree built over a graph with exactly one active node has a root
\* of mass 1 whose centre of mass is the position of that node, and
\* computeForce for that node is (0, 0) whatever G and theta are; on the tree
\* built with nodeCount = 0 computeForce is (0, 0) for every query.
C21_SoleNodeTree ==
    /\ \A i \in ActiveNodes(graph) :
          ActiveNodes(graph) = {i} =>
              /\ RootOf(TreeOf(graph)).mass = Scale
              /\ <<RootOf(TreeOf(graph)).comX, RootOf(TreeOf(graph)).comY>>
                     = PositionOf(graph, i)
              /\ \A G \in TreeGVals, theta \in ThetaVals :
                     computeForce(TreeOf(graph), i, graph.positions[i * 2],
                                  graph.positions[i * 2 + 1], G, theta) = <<0, 0>>
    /\ numNodes(graph) = 0 =>
          \A id \in 0..(MaxNodes - 1), p \in TreePosVals :
              \A G \in TreeGVals, theta \in ThetaVals :
                  computeForce(TreeOf(graph), id, p[1], p[2], G, theta) = <<0, 0>>

\* one node is active among hidden ones, away from the origin
C21_Witness ==
    /\ numNodes(graph) = MaxNodes
    /\ Cardinality(ActiveNodes(graph)) = 1
    /\ \E i \in ActiveNodes(graph) : PositionOf(graph, i) = <<0 - Scale, Scale>>
    /\ RootOf(TreeOf(graph)).mass = Scale

\* ------------------------------------------------------------------------
\* Properties of QuadTree.build (SpecTree)
\* ------------------------------------------------------------------------
\* build before "Insert all active nodes": the pool that holds the root cell
RootPool(g) ==
    RootCell(BoundingBox(0, numNodes(g), g.positions, g.sizes,
                         [minX |-> PInf, minY |-> PInf, maxX |-> NInf, maxY |-> NInf]))
\* the chain of insert() calls that build makes for node i of graph g, in the
\* pool that holds the nodes before i: its last state
InsertOf(g, i) ==
    InsertRun(MaxDepth + 1,
              [pool |-> InsertAll(0, i, g.positions, g.sizes, RootPool(g)),
               at |-> 0, depth |-> 0, done |-> FALSE],
              i, g.positions[i * 2], g.positions[i * 2 + 1])
\* node i of graph g was inserted after an active node at the same position
Coincides(g, i) ==
    \E j \in ActiveNodes(g) : j < i /\ PositionOf(g, j) = PositionOf(g, i)

\* C25: build terminates: the chain of insert() calls for every active node
\* returns within MaxDepth + 1 calls and at a depth of at most MaxDepth; a
\* node at the position of an earlier one ends at depth MaxDepth in a cell
\* that stays a leaf with an earlier body, its mass raised by one.
C25_BuildTerminates ==
    \A i \in ActiveNodes(graph) :
        LET run == InsertOf(graph, i)
            cell == run.pool[run.at + 1]
        IN  /\ run.done
            /\ run.depth <= MaxDepth
            /\ Coincides(graph, i) =>
                   /\ run.depth = MaxDepth
                   /\ cell.child = NoChild
                   /\ cell.bodyId >= 0 /\ cell.bodyId < i
                   /\ Ge(cell.mass, 2 * Scale)

\* three active nodes at one position: the second and the third are merged
C25_Witness ==
    /\ Cardinality(ActiveNodes(graph)) = MaxNodes
    /\ \A i \in ActiveNodes(graph) : PositionOf(graph, i) = <<Scale, 0>>
    /\ InsertOf(graph, MaxNodes - 1).depth = MaxDepth
    /\ InsertOf(graph, MaxNodes - 1).pool[InsertOf(graph, MaxNodes - 1).at + 1].mass
           = 3 * Scale

\* the masses of the children of tree node t
ChildMass(pool, t) ==
    ChildSums(pool, t, 1, [m |-> 0, x |-> 0, y |-> 0]).m

\* C26: after build the mass of every internal cell is the sum of the masses
\* of its children, and the mass of the root is the number of active nodes,
\* coincident nodes merged at the depth cap included.
C26_MassIsConserved ==
    LET tree == TreeOf(graph)
    IN  tree.root >= 0 =>
            /\ \A k \in 1..Len(tree.pool) :
                   tree.pool[k].child # NoChild =>
                       /\ tree.pool[k].bodyId < 0
                       /\ tree.pool[k].mass = ChildMass(tree.pool, tree.pool[k])
            /\ RootOf(tree).mass = Scale * Cardinality(ActiveNodes(graph))

\* two nodes merged at the depth cap, a third elsewhere, in a tree of mass 3
C26_Witness ==
    /\ Cardinality(ActiveNodes(graph)) = 3
    /\ RootOf(TreeOf(graph)).mass = 3 * Scale
    /\ \E k \in 1..Len(TreeOf(graph).pool) :
           /\ TreeOf(graph).pool[k].bodyId >= 0
           /\ TreeOf(graph).pool[k].mass = 2 * Scale
    /\ \E k \in 1..Len(TreeOf(graph).pool) :
           /\ TreeOf(graph).pool[k].bodyId >= 0
           /\ TreeOf(graph).pool[k].mass = Scale

\* ------------------------------------------------------------------------
\* Properties of QuadTree.computeForce (SpecTree)
\* ------------------------------------------------------------------------
\* no two active nodes of graph g are at the same position
DistinctPositions(g) ==
    \A i, j \in ActiveNodes(g) : i # j => PositionOf(g, i) # PositionOf(g, j)
\* the tree nodes whose force computeForce adds for node i of graph g, theta = 0
HitsOf(g, i) ==
    WalkOf(TreeOf(g), i, g.positions[i * 2], g.positions[i * 2 + 1], 0 - 250, 0).hits

\* C24: with theta = 0 and pairwise-distinct active positions, computeForce
\* for an active node i adds forces of leaves only, one leaf for each active
\* node other than i, placed at that node's position: the pairs of the
\* brute-force repulsion.
C24_ThetaZeroIsBruteForce ==
    DistinctPositions(graph) =>
        \A i \in ActiveNodes(graph) :
            LET pool == TreeOf(graph).pool
                hits == HitsOf(graph, i)
            IN  /\ \A h \in 1..Len(hits) :
                       /\ pool[hits[h] + 1].bodyId >= 0
                       /\ <<pool[hits[h] + 1].comX, pool[hits[h] + 1].comY>>
                              = PositionOf(graph, pool[hits[h] + 1].bodyId)
                /\ { pool[hits[h] + 1].bodyId : h \in 1..Len(hits) }
                       = ActiveNodes(graph) \ {i}
                /\ Len(hits) = Cardinality(ActiveNodes(graph)) - 1

\* ------------------------------------------------------------------------
\* Properties of a layout on reused node ids (SpecReuse)
\* ------------------------------------------------------------------------
\* the velocity that layout l holds for node id
VelocityOf(l, id) == <<Get(l.velocities, id * 2), Get(l.velocities, id * 2 + 1)>>

\* C28: the velocity entry that the layout holds for a node id is left as it
\* is when the node is removed, while the id is free and when addNode reuses
\* the id (an id beyond the arrays has no entry until a tick grows them), by
\* every call but reset() and pin(); a pin on the id stays as well; and a
\* tick whose buffers cover the graph integrates an active node from that
\* entry: velocity' = (velocity + force * timestep) * damping, clamped.
C28_ReusedIdKeepsVelocity ==
    [][ \A id \in 0..(MaxNodes - 1) :
          /\ ( /\ ~isNodeActive(graph, id) \/ ~isNodeActive(graph', id)
               /\ 2 * id + 1 \in DOMAIN layouts[1].velocities
               /\ hist'.op \notin {"reset", "pin"} )
                 => VelocityOf(layouts'[1], id) = VelocityOf(layouts[1], id)
          /\ hist'.op \in {"removeNode", "addNode"}
                 => (id \in layouts'[1].pinned <=> id \in layouts[1].pinned)
          /\ ( /\ hist'.op = "step" /\ Len(hist'.trace) = 1
               /\ isNodeActive(graph, id) /\ ActiveNode(graph, id)
               /\ id \notin layouts[1].pinned
               /\ 2 * graph.nodeCount - 1 \in DOMAIN layouts[1].velocities )
                 => \A k \in {2 * id, 2 * id + 1} :
                        layouts'[1].velocities[k] =
                            NewVel[layouts'[1].forces[k], layouts[1].velocities[k],
                                   layouts[1].config.damping, layouts[1].config.timestep,
                                   layouts[1].config.maxVelocity] ]_vars

\* addNode has reused the id 0 of a removed node, and the layout holds a
\* velocity for it that is not zero
C28_Witness ==
    /\ hist.op = "addNode"
    /\ calls = 2
    /\ isNodeActive(graph, 0)
    /\ PositionOf(graph, 0) \in NewPosVals
    /\ VelocityOf(layouts[1], 0)[1] # 0
    /\ IsFinite(VelocityOf(layouts[1], 0)[1])

\* ------------------------------------------------------------------------
\* Properties of one GPUForceLayout (SpecGpu)
\* ------------------------------------------------------------------------
\* the loop closures of GPU layout d that are alive: awaiting the pending map,
\* queued as the frame callback, or awaiting a rejected mapAsync
LoopChains(d) ==
    (IF d.mapping >= 0 THEN 1 ELSE 0) + (IF d.frame THEN 1 ELSE 0) + d.rejected

\* C29: at most one loop chain of the GPU layout is alive, whatever start()
\* and stop() calls, frame callbacks and readbacks came before.
C29_SingleLoopChain == LoopChains(gpuLayout[1]) <= 1

\* ------------------------------------------------------------------------
\* Properties of the InteractionController (SpecDrag)
\* ------------------------------------------------------------------------
\* C30: the controller's pins are balanced: when no node is dragged, no
\* layout holds a pinned node (the controller is the only caller of pin here).
C30_PinsBalanced ==
    controls.nodeId = NoNode => \A L \in Layouts : layouts[L].pinned = {}

\* ------------------------------------------------------------------------
\* Properties of the graph (SpecGraph)
\* ------------------------------------------------------------------------
\* edge e of graph g has node id as source or target
Incident(g, e, id) == g.edgeIndices[e * 2] = id \/ g.edgeIndices[e * 2 + 1] = id

\* C23: unput(id) of an active node deactivates the node and exactly the
\* active edges that have it as source or target: afterwards no active edge
\* has id as an endpoint, and every active edge not incident to id is still
\* active between the same endpoints.
C23_UnputRemovesIncidentEdges ==
    [][ (hist'.op = "unput" /\ isNodeActive(graph, hist'.n)) =>
           /\ ~isNodeActive(graph', hist'.n)
           /\ \A e \in DOMAIN graph.edgeTags :
                 /\ isEdgeActive(graph', e) => ~Incident(graph', e, hist'.n)
                 /\ (isEdgeActive(graph, e) /\ ~Incident(graph, e, hist'.n)) =>
                        /\ isEdgeActive(graph', e)
                        /\ graph'.edgeIndices[e * 2] = graph.edgeIndices[e * 2]
                        /\ graph'.edgeIndices[e * 2 + 1] = graph.edgeIndices[e * 2 + 1] ]_vars
====
